---------------------------- MODULE Spec2Model ----------------------------
(***************************************************************************)
(* A model of ppc-distcc: the dispatcher (ppc_compile_coordinator.py), the *)
(* wrapper client (ppc_compile_wrapper.py) and the worker daemon           *)
(* (ppc_compile_worker.py).                                                *)
(*                                                                         *)
(* Units.  weight and load are floats in the code; here they are counted   *)
(* in halves (weight 2.0 is 4, load 0.5 is 1), so that the score           *)
(*     weight * cpus / (1 + load + active_jobs)                            *)
(* is the fraction ScoreNum / ScoreDen of two integers and two scores are  *)
(* compared exactly by cross-multiplication.                               *)
(***************************************************************************)
EXTENDS Integers, Sequences, FiniteSets, TLC

(***************************************************************************)
(* Bounds of the model.                                                    *)
(***************************************************************************)
NumWorkers == 2      \* workers in the dispatcher's pool
NumThreads == 2      \* threads calling compile_file concurrently
MaxJobs == 2         \* compile_file calls in one run
NumHosts == 2        \* hosts in the wrapper's list
NumConns == 2        \* connections the worker daemon accepts
MaxRecv == 4         \* frames a client sends on one connection
MaxDirs == 3         \* names mkdtemp can choose from
MaxPool == 2         \* workers in a pool handed to get_best_worker alone
MaxActive == 2       \* active_jobs of a worker in such a pool
MaxBatch == 3        \* jobs in the list given to compile_many
MaxGiven == 2        \* the largest max_parallel a caller passes
MaxFrames == 2       \* frames written to one byte stream
MaxPayload == 1      \* bytes in the payload of such a frame
MaxHdrs == 1         \* sidecar headers of one job
SpreadJobs == 10     \* jobs of the batch that is spread over the workers
MaxParallel == 4     \* executor threads of that batch: max(2 + 2, 4)

Workers == 1..NumWorkers
Conns == 1..NumConns
DirNames == 1..MaxDirs
Threads == 1..NumThreads

VARIABLES
    workers,         \* DistributedCompiler.workers: the WorkerStates
    local_fallback,  \* DistributedCompiler.local_fallback
    job_counter,     \* DistributedCompiler.job_counter
    th,              \* per thread: the frame of its compile_file call
    downSince,       \* history: workers that failed a job since their last
                     \* successful probe
    pool,            \* a list of WorkerStates given to get_best_worker
    chosen,          \* what get_best_worker returned for pool: an index,
                     \* 0 for None, -1 before the call
    program,         \* which program of the repository this run is of
    wr,              \* the wrapper: the frame of main and try_remote_compile
    conn,            \* the worker daemon, per connection: the frame of its
                     \* handle_client thread
    fs,              \* the worker's disk: the workspace directories on it
    batch,           \* compile_many: the frame of one call and its futures
    wire,            \* a byte stream between a send_message and a recv_message
    req,             \* the JobRequest a client builds for an invocation
    lock,            \* DistributedCompiler.lock: the thread holding it, 0: free
    access,          \* history: the last access to a WorkerState's dynamic
                     \* field, and whether its thread held the lock
    probe,           \* refresh_workers, per worker: the frame of its
                     \* check_worker call
    wrote,           \* history, per worker: the compile_file calls that got
                     \* OK and OBJ from it and wrote the output
    workspace,       \* handle_compile_job: one job's names and the files and
                     \* directories it created on the worker's disk
    spread           \* compile_many on its executor threads: the jobs still
                     \* queued and each thread's compile_file call

\* The variables of the dispatcher, of get_best_worker tried alone, and all
\* but the dispatcher's.
dvars == <<workers, local_fallback, job_counter, th, downSince>>
svars == <<pool, chosen>>
wvars == <<wr>>
kvars == <<conn, fs>>
xvars == <<batch, wire, req, lock, access, probe, wrote, workspace, spread>>
others == <<svars, program, xvars, wvars, kvars>>
vars == <<dvars, svars, program, xvars, wvars, kvars>>

(***************************************************************************)
(* The pool.                                                               *)
(***************************************************************************)
\* DEFAULT_WORKERS: the weights of the configured workers, in halves.
Weight2(w) == IF w <= 2 THEN 4 ELSE IF w = 3 THEN 3 ELSE 2

\* The SystemInfo document worker w puts in its PONG (load in halves).
SystemInfo(w) == [cpus |-> 2, load |-> w - 1]

\* WorkerState as __init__ builds it, before the first probe.
WorkerState(w) ==
    [weight |-> Weight2(w), available |-> FALSE, cpus |-> 1, load |-> 0,
     active_jobs |-> 0, total_jobs |-> 0]

\* score(w) = weight * cpus / (1 + load + active_jobs), as a fraction.
ScoreNum(ws) == ws.weight * ws.cpus

\* The denominator without the jobs in flight.
ScoreDenNoActive(ws) == 2 + ws.load

ScoreDen(ws) == 2 + ws.load + 2 * ws.active_jobs

\* score(a) > score(b)
ScoreGreater(a, b) == ScoreNum(a) * ScoreDen(b) > ScoreNum(b) * ScoreDen(a)

\* A max() that keeps the last of several maximal elements.
MaxReplacesOnTie(cand, best) == ~ScoreGreater(best, cand)

\* The comparison max() makes: the running best is replaced only by a
\* strictly greater key.
MaxReplaces(cand, best) == ScoreGreater(cand, best)

\* max(available, key=score) over the pool in list order: the index of the
\* chosen worker among lst[i..], given the best index so far (0: none yet).
RECURSIVE MaxScan(_, _, _)
MaxScan(lst, i, best) ==
    IF i > Len(lst) THEN best
    ELSE IF ~lst[i].available THEN MaxScan(lst, i + 1, best)
    ELSE IF best = 0 THEN MaxScan(lst, i + 1, i)
    ELSE IF MaxReplaces(lst[i], lst[best]) THEN MaxScan(lst, i + 1, i)
    ELSE MaxScan(lst, i + 1, best)

\* get_best_worker: the index of the chosen worker, 0 for None.
get_best_worker(lst) == MaxScan(lst, 1, 0)

\* The dispatcher's pool as the list get_best_worker scans.
PoolList == [i \in 1..NumWorkers |-> workers[i]]

(***************************************************************************)
(* compile_file inputs.                                                    *)
(***************************************************************************)
\* The arguments of the calls of a run: the n-th call compiles Job(n).  A
\* path is the sequence of its components.
Job(n) ==
    IF n % 2 = 1
    THEN [source_path |-> <<"home", "proj", "a.c">>,
          output_path |-> <<"home", "proj", "a.o">>,
          compiler |-> "gcc", args |-> << <<"-O2">> >>,
          include_paths |-> << <<"inc">> >>, defines |-> << <<"NDEBUG">> >>]
    ELSE [source_path |-> <<"b.c">>,
          output_path |-> <<"b.o">>,
          compiler |-> "g++", args |-> << >>,
          include_paths |-> << >>, defines |-> << >>]

\* cmd.extend([flag, x]) for every x of xs.
RECURSIVE Flagged(_, _)
Flagged(flag, xs) ==
    IF xs = << >> THEN << >>
    ELSE << <<flag>>, Head(xs) >> \o Flagged(flag, Tail(xs))

\* The command line _compile_local runs.
LocalCmd(job) ==
    << <<job.compiler>> >> \o Flagged("-I", job.include_paths)
       \o Flagged("-D", job.defines) \o job.args
       \o << <<"-c">>, job.source_path, <<"-o">>, job.output_path >>

\* Frames a worker connection can deliver to the dispatcher.  A payload is
\* named by what it decodes to: "doc", a JSON object (the failure document
\* after ERR, the success document after OK), or "text", bytes that are not
\* a JSON object.
NoFrame == [tag |-> "none", payload |-> "none"]
ReplyFrames ==
    [tag : {"ERR", "OK"}, payload : {"doc", "text"}]
      \cup {[tag |-> "OBJ", payload |-> "text"],
            [tag |-> "PONG", payload |-> "doc"]}

\* json.loads(data.decode('utf-8')) followed by response.get(...): raises
\* unless the payload is a JSON object.
JsonObject(payload) == payload = "doc"

\* response.get('stderr', 'Unknown error') of the failure document.
ErrorMsg(payload) == "stderr"

NoJob == [source_path |-> << >>, output_path |-> << >>, compiler |-> "",
          args |-> << >>, include_paths |-> << >>, defines |-> << >>]
NoResult == [ok |-> FALSE, msg |-> "none"]
Raised == [ok |-> FALSE, msg |-> "raised"]

\* A thread that is not inside compile_file.  reply is the first reply frame
\* the call read and reply2 the tag of the frame it read after OK; output is
\* what the call did to the file at its output path: "untouched", "written"
\* or "partial" (opened for writing and not written in full).
IdleFrame ==
    [pc |-> "idle", job_id |-> 0, job |-> NoJob, worker |-> 0,
     sels |-> 0, conns |-> 0, sock |-> "none", sent |-> << >>,
     reply |-> NoFrame, reply2 |-> "none", result |-> NoResult,
     local_cmd |-> << >>, local_rc |-> -1,
     marked_down |-> FALSE, counted |-> FALSE, output |-> "untouched"]

\* The wrapper before main runs.  exit is the process's exit code (-1 while
\* it runs), result what the last try_remote_compile returned (-1 for None),
\* errcode the returncode of the ERR document it read (-1: none read),
\* stored whether it wrote the object file.
WrapperStart ==
    [pc |-> "main", fallback |-> "1", host |-> 0, sock |-> "none",
     sent |-> << >>, reply |-> NoFrame, result |-> -1, exit |-> -1,
     local_rc |-> -1, stored |-> FALSE, errcode |-> -1,
     reply2 |-> "none", output |-> "untouched"]

\* A connection the daemon has not accepted yet.  msg is the tag of the
\* frame the connection loop last read, reply the frames sent in answer to
\* it; job is "none", "running", "returned" or "raised" for the last call of
\* handle_compile_job, tmpdir its workspace (0: none made), io_error whether
\* a socket call failed in it or in the loop since that frame, ran whether
\* it ran the compiler; nread is the number of frames handle_compile_job
\* read, deviation what was wrong with the job's frames: "job_json" (the
\* JobRequest is no JSON object), "not_src", "not_hdr" (the frame read for
\* SRC or HDR has another tag) or "hdr_decode".
NotAccepted ==
    [pc |-> "listen", nrecv |-> 0, msg |-> "none", reply |-> << >>,
     job |-> "none", tmpdir |-> 0, io_error |-> FALSE, ran |-> FALSE,
     nread |-> 0, deviation |-> "none"]

\* A job of a batch before it is submitted: st is where its future stands,
\* worker the worker its compile_file call runs on, outcome how the call
\* ended ("ok", "fail" or "raised").
NoFuture == [st |-> "none", worker |-> 0, outcome |-> "none"]

\* compile_many has not been called.  jobs is the list of the source paths
\* of the jobs, fut the futures, results the returned mapping (by source
\* path, "none": no entry), cpus0 the sum of cpus over the workers available
\* when the call began.
NoBatch ==
    [pc |-> "none", jobs |-> << >>, given |-> FALSE, max_parallel |-> 0,
     cpus0 |-> 0, submitted |-> 0, fut |-> << >>,
     results |-> [src \in 1..MaxBatch |-> "none"]]

\* No stream is open.  snd and rcv are the implementations of send_message
\* and recv_message at the two ends and snd_py2, rcv_py2 whether they run
\* under Python 2; handed are the frames given to send_message, stream the
\* bytes written and not yet read, buf the bytes the current recv_exactly
\* call has, of the need it was asked for; phase is "header" or "payload",
\* hdr the header recv_message has parsed, got the frames it has returned,
\* raised whether a send_message call raised.
NoWire ==
    [pc |-> "none", snd |-> "none", snd_py2 |-> FALSE, rcv |-> "none",
     rcv_py2 |-> FALSE, handed |-> << >>, stream |-> << >>, buf |-> << >>,
     need |-> 8, phase |-> "header", hdr |-> [length |-> 0, tag |-> << >>],
     got |-> << >>, raised |-> FALSE]

\* The JobRequest document of the JOB frame.
NoJobRequest ==
    [job_id |-> "", compiler |-> "", args |-> << >>, source_name |-> << >>,
     include_paths |-> << >>, defines |-> << >>]

\* No JobRequest has been built.  client is the program that builds it,
\* source and output the paths of its invocation, job the JobRequest.
NoRequest ==
    [pc |-> "none", client |-> "none", source |-> << >>, output |-> << >>,
     job |-> NoJobRequest]

\* No dynamic field has been accessed.
NoAccess == [field |-> "none", locked |-> TRUE]

\* check_worker is not running.  sock is the socket of line 127, reply the
\* frame read at line 131 and result what the call returned.
NoProbe == [pc |-> "idle", sock |-> "none", reply |-> NoFrame,
            result |-> "none"]

\* handle_compile_job has no job.  source_name and headers are the names
\* the client sent, todo the header names not yet written, dirs the
\* directories and made the files the handler has created.
NoWorkspace ==
    [pc |-> "none", source_name |-> << >>, headers |-> << >>, todo |-> 0,
     dirs |-> {}, made |-> {}]

\* An executor thread of compile_many with no job.
IdleExecutor == [pc |-> "idle", worker |-> 0]

\* compile_many has not been called.  queued is the number of submitted
\* jobs no thread has taken, done the number of results collected.
NoSpread ==
    [pc |-> "none", max_parallel |-> 0, queued |-> 0, done |-> 0,
     thr |-> [x \in 1..MaxParallel |-> IdleExecutor]]

\* Lines 102-116: the dispatcher as __init__ builds it.
DispatcherStart ==
    /\ workers = [w \in Workers |-> WorkerState(w)]
    /\ job_counter = 0
    /\ th = [t \in Threads |-> IdleFrame]
    /\ downSince = {}

\* Nothing else has run.
OthersAtStart ==
    /\ pool = << >>
    /\ chosen = -1
    /\ wr = WrapperStart
    /\ conn = [c \in Conns |-> NotAccepted]
    /\ fs = {}
    /\ batch = NoBatch
    /\ wire = NoWire
    /\ req = NoRequest
    /\ lock = 0
    /\ access = NoAccess
    /\ probe = [w \in Workers |-> NoProbe]
    /\ wrote = [w \in Workers |-> 0]
    /\ workspace = NoWorkspace
    /\ spread = NoSpread

\* Nothing has run.
AllAtStart == DispatcherStart /\ OthersAtStart

Init ==
    /\ AllAtStart
    /\ local_fallback \in BOOLEAN
    /\ program = "dispatcher"

(***************************************************************************)
(* compile_file, one thread t.                                             *)
(***************************************************************************)
Frame(t, r) == th' = [th EXCEPT ![t] = r]

\* Lines 282-286: the finally clause of _compile_remote, which every exit of
\* its try statement runs: sock.close(), errors swallowed.  The call is then
\* at the finally clause of compile_file.
Finally(fr) ==
    [fr EXCEPT !.pc = "decr", !.sock = IF @ = "open" THEN "closed" ELSE @]

\* CompileFile with the counter incremented outside the lock: the thread
\* writes back one more than a job_counter it read before another thread's
\* increment.
CompileFileUnlocked(t) ==
    /\ th[t].pc = "idle"
    /\ job_counter < MaxJobs
    /\ \E read \in 0..job_counter :
          /\ job_counter' = read + 1
          /\ Frame(t, [IdleFrame EXCEPT !.pc = "select",
                                       !.job_id = read + 1,
                                       !.job = Job(read + 1)])
    /\ UNCHANGED <<workers, local_fallback, downSince, others>>

\* Lines 173-179: the call starts and mints its job id under the lock.
CompileFile(t) ==
    /\ th[t].pc = "idle"
    /\ job_counter < MaxJobs
    /\ job_counter' = job_counter + 1
    /\ Frame(t, [IdleFrame EXCEPT !.pc = "select",
                                 !.job_id = job_counter + 1,
                                 !.job = Job(job_counter + 1)])
    /\ UNCHANGED <<workers, local_fallback, downSince, others>>

\* Lines 181-188: worker = self.get_best_worker(), and the no-worker exits.
SelectWorker(t) ==
    /\ th[t].pc = "select"
    /\ LET w == get_best_worker(PoolList) IN
         IF w # 0
         THEN Frame(t, [th[t] EXCEPT !.pc = "incr", !.worker = w,
                                     !.sels = @ + 1])
         ELSE IF local_fallback
         THEN Frame(t, [th[t] EXCEPT !.pc = "local"])
         ELSE Frame(t, [th[t] EXCEPT !.pc = "done",
                          !.result = [ok |-> FALSE,
                                      msg |-> "No workers available"]])
    /\ UNCHANGED <<workers, local_fallback, job_counter, downSince, others>>

\* Lines 190-191: with self.lock: worker.active_jobs += 1
IncrActive(t) ==
    /\ th[t].pc = "incr"
    /\ workers' = [workers EXCEPT ![th[t].worker].active_jobs = @ + 1]
    /\ Frame(t, [th[t] EXCEPT !.pc = "connect"])
    /\ UNCHANGED <<local_fallback, job_counter, downSince, others>>

\* Lines 210-216: the socket is created and connected and the source file is
\* read; a refused or timed-out connect raises before the socket carries
\* anything, an unreadable source raises after the connect.
Connect(t) ==
    /\ th[t].pc = "connect"
    /\ \/ Frame(t, [th[t] EXCEPT !.pc = "send", !.sock = "open",
                                 !.conns = @ + 1])
       \/ Frame(t, [th[t] EXCEPT !.pc = "except", !.sock = "open",
                                 !.conns = @ + 1])
       \/ Frame(t, [th[t] EXCEPT !.pc = "except", !.sock = "unconnected"])
    /\ UNCHANGED <<workers, local_fallback, job_counter, downSince, others>>

\* The frames of a job with the headers sent before the source.
ClientFramesHdrFirst == <<"JOB", "HDR", "SRC">>

\* Lines 228-235: the frames of a job, in the order the dispatcher sends them.
ClientFrames == <<"JOB", "SRC", "HDR">>

\* One send_message call of lines 229-235: the next frame goes out, or
\* sendall raises.
SendFrame(t) ==
    /\ th[t].pc = "send"
    /\ LET n == Len(th[t].sent) + 1 IN
         \/ Frame(t, [th[t] EXCEPT
                        !.sent = Append(@, ClientFrames[n]),
                        !.pc = IF n = Len(ClientFrames) THEN "recv"
                               ELSE "send"])
         \/ Frame(t, [th[t] EXCEPT !.pc = "except"])
    /\ UNCHANGED <<workers, local_fallback, job_counter, downSince, others>>

\* OnErrReply with every ERR reply handled as a failure of the worker.
OnErrReplyAsFailure(t, f) ==
    Frame(t, [th[t] EXCEPT !.pc = "except", !.reply = f])

\* Lines 240-244: the ERR branch.
OnErrReply(t, f) ==
    IF JsonObject(f.payload)
    THEN Frame(t, Finally([th[t] EXCEPT !.reply = f,
                     !.result = [ok |-> FALSE, msg |-> ErrorMsg(f.payload)]]))
    ELSE Frame(t, [th[t] EXCEPT !.pc = "except", !.reply = f])

\* Lines 238-271: the first reply frame is read and dispatched on its tag; a
\* closed or timed-out connection raises.
RecvReply(t) ==
    /\ th[t].pc = "recv"
    /\ \/ \E f \in ReplyFrames :
            IF f.tag = "ERR" THEN OnErrReply(t, f)
            ELSE IF f.tag = "OK"
            THEN IF JsonObject(f.payload)
                 THEN Frame(t, [th[t] EXCEPT !.pc = "recv_obj", !.reply = f])
                 ELSE Frame(t, [th[t] EXCEPT !.pc = "except", !.reply = f])
            ELSE Frame(t, Finally([th[t] EXCEPT !.reply = f,
                             !.result = [ok |-> FALSE,
                                         msg |-> "Unexpected response"]]))
       \/ Frame(t, [th[t] EXCEPT !.pc = "except"])
    /\ UNCHANGED <<workers, local_fallback, job_counter, downSince, others>>

\* RecvObj taking the payload of whatever frame follows OK for the object.
RecvObjAnyTag(t) ==
    /\ th[t].pc = "recv_obj"
    /\ \/ \E f \in ReplyFrames :
            Frame(t, [th[t] EXCEPT !.pc = "write", !.reply2 = f.tag])
       \/ Frame(t, [th[t] EXCEPT !.pc = "except"])
    /\ UNCHANGED <<workers, local_fallback, job_counter, downSince, others>>

\* Lines 250-252: the frame after OK.
RecvObj(t) ==
    /\ th[t].pc = "recv_obj"
    /\ \/ \E f \in ReplyFrames :
            IF f.tag = "OBJ"
            THEN Frame(t, [th[t] EXCEPT !.pc = "write", !.reply2 = f.tag])
            ELSE Frame(t, Finally([th[t] EXCEPT
                             !.reply2 = f.tag,
                             !.result = [ok |-> FALSE,
                                         msg |-> "Expected OBJ"]]))
       \/ Frame(t, [th[t] EXCEPT !.pc = "except"])
    /\ UNCHANGED <<workers, local_fallback, job_counter, downSince, others>>

\* Lines 255-257: the output file is written; or makedirs or open raises,
\* or write raises on the file that open has truncated.
WriteOutput(t) ==
    /\ th[t].pc = "write"
    /\ \/ /\ Frame(t, [th[t] EXCEPT !.pc = "stats", !.output = "written"])
          /\ wrote' = [wrote EXCEPT ![th[t].worker] = @ + 1]
       \/ /\ Frame(t, [th[t] EXCEPT !.pc = "except"])
          /\ UNCHANGED wrote
       \/ /\ Frame(t, [th[t] EXCEPT !.pc = "except", !.output = "partial"])
          /\ UNCHANGED wrote
    /\ UNCHANGED <<workers, local_fallback, job_counter, downSince, svars,
                   program, batch, wire, req, lock, access, probe, workspace,
                   spread, wvars, kvars>>

\* UpdateStats with the increment outside the lock: the thread writes back
\* one more than a total_jobs it read before another thread's increment.
UpdateStatsUnlocked(t) ==
    /\ th[t].pc = "stats"
    /\ \E read \in 0..workers[th[t].worker].total_jobs :
          workers' = [workers EXCEPT ![th[t].worker].total_jobs = read + 1]
    /\ Frame(t, Finally([th[t] EXCEPT !.counted = TRUE,
                   !.result = [ok |-> TRUE, msg |-> "output_path"]]))
    /\ UNCHANGED <<local_fallback, job_counter, downSince, others>>

\* UpdateStats taking the success as proof that the worker is up again.
UpdateStatsRevives(t) ==
    /\ th[t].pc = "stats"
    /\ workers' = [workers EXCEPT ![th[t].worker].total_jobs = @ + 1,
                                 ![th[t].worker].available = TRUE]
    /\ Frame(t, Finally([th[t] EXCEPT !.counted = TRUE,
                   !.result = [ok |-> TRUE, msg |-> "output_path"]]))
    /\ UNCHANGED <<local_fallback, job_counter, downSince, others>>

\* Lines 264-268: the success counters, under the lock, and the return.
UpdateStats(t) ==
    /\ th[t].pc = "stats"
    /\ workers' = [workers EXCEPT ![th[t].worker].total_jobs = @ + 1]
    /\ Frame(t, Finally([th[t] EXCEPT !.counted = TRUE,
                   !.result = [ok |-> TRUE, msg |-> "output_path"]]))
    /\ UNCHANGED <<local_fallback, job_counter, downSince, others>>

\* Except without line 275: the worker stays available.
ExceptKeepsAvailable(t) ==
    /\ th[t].pc = "except"
    /\ downSince' = downSince \cup {th[t].worker}
    /\ IF local_fallback
       THEN Frame(t, [th[t] EXCEPT !.pc = "local", !.marked_down = TRUE])
       ELSE Frame(t, Finally([th[t] EXCEPT !.marked_down = TRUE,
                        !.result = [ok |-> FALSE, msg |-> "str(e)"]]))
    /\ UNCHANGED <<workers, local_fallback, job_counter, others>>

\* Except retrying the job on the next best worker instead of giving up.
ExceptRetries(t) ==
    /\ th[t].pc = "except"
    /\ workers' = [workers EXCEPT
                     ![th[t].worker].available = FALSE,
                     ![th[t].worker].active_jobs = @ - 1]
    /\ downSince' = downSince \cup {th[t].worker}
    /\ Frame(t, [th[t] EXCEPT !.pc = "select", !.marked_down = TRUE,
                                !.sock = "none", !.sent = << >>])
    /\ UNCHANGED <<local_fallback, job_counter, others>>

\* Lines 273-280: the except clause of _compile_remote.
Except(t) ==
    /\ th[t].pc = "except"
    /\ workers' = [workers EXCEPT ![th[t].worker].available = FALSE]
    /\ downSince' = downSince \cup {th[t].worker}
    /\ IF local_fallback
       THEN Frame(t, [th[t] EXCEPT !.pc = "local", !.marked_down = TRUE])
       ELSE Frame(t, Finally([th[t] EXCEPT !.marked_down = TRUE,
                        !.result = [ok |-> FALSE, msg |-> "str(e)"]]))
    /\ UNCHANGED <<local_fallback, job_counter, others>>

\* LocalResult ignoring the exit code.
LocalResultAlwaysOk(rc) == [ok |-> TRUE, msg |-> "output_path"]

\* Lines 302-304: what _compile_local returns for an exit code.
LocalResult(rc) ==
    IF rc # 0 THEN [ok |-> FALSE, msg |-> "stderr or stdout"]
    ELSE [ok |-> TRUE, msg |-> "output_path"]

\* Where a call goes after _compile_local: straight out of compile_file on
\* the no-worker path, through the finally clauses on the remote path.
AfterLocal(fr) ==
    IF fr.worker = 0 THEN [fr EXCEPT !.pc = "done"] ELSE Finally(fr)

\* Lines 288-304: _compile_local runs the compiler, which exits with some
\* code, or subprocess.run raises (no such executable).
CompileLocal(t) ==
    /\ th[t].pc = "local"
    /\ \/ \E rc \in {0, 1} :
            Frame(t, AfterLocal([th[t] EXCEPT
                        !.local_cmd = LocalCmd(th[t].job), !.local_rc = rc,
                        !.output = IF rc = 0 THEN "written" ELSE @,
                        !.result = LocalResult(rc)]))
       \/ Frame(t, AfterLocal([th[t] EXCEPT
                      !.local_cmd = LocalCmd(th[t].job), !.result = Raised]))
    /\ UNCHANGED <<workers, local_fallback, job_counter, downSince, others>>

\* DecrActive as a decrement on the success path only, not in a finally.
DecrActiveOnSuccess(t) ==
    /\ th[t].pc = "decr"
    /\ workers' = [workers EXCEPT ![th[t].worker].active_jobs =
                                    IF th[t].result.ok THEN @ - 1 ELSE @]
    /\ Frame(t, [th[t] EXCEPT !.pc = "done"])
    /\ UNCHANGED <<local_fallback, job_counter, downSince, others>>

\* Lines 196-198: finally: with self.lock: worker.active_jobs -= 1
DecrActive(t) ==
    /\ th[t].pc = "decr"
    /\ workers' = [workers EXCEPT ![th[t].worker].active_jobs = @ - 1]
    /\ Frame(t, [th[t] EXCEPT !.pc = "done"])
    /\ UNCHANGED <<local_fallback, job_counter, downSince, others>>

\* compile_file has returned (or raised) and its caller takes the result.
Return(t) ==
    /\ th[t].pc = "done"
    /\ Frame(t, IdleFrame)
    /\ UNCHANGED <<workers, local_fallback, job_counter, downSince, others>>

(***************************************************************************)
(* refresh_workers: check_worker(w), one probe of worker w.                *)
(***************************************************************************)
\* Lines 134-142: a PONG with a SystemInfo document was received.
ProbePong(w) ==
    /\ workers' = [workers EXCEPT ![w].available = TRUE,
                                 ![w].cpus = SystemInfo(w).cpus,
                                 ![w].load = SystemInfo(w).load]
    /\ downSince' = downSince \ {w}
    /\ UNCHANGED <<local_fallback, job_counter, th, others>>

\* Lines 143-146: connect, send or recv raised, or the PONG payload did not
\* parse.
ProbeFail(w) ==
    /\ workers' = [workers EXCEPT ![w].available = FALSE]
    /\ UNCHANGED <<local_fallback, job_counter, th, downSince, others>>

Step(t) ==
    \/ CompileFile(t) \/ SelectWorker(t) \/ IncrActive(t) \/ Connect(t)
    \/ SendFrame(t) \/ RecvReply(t) \/ RecvObj(t) \/ WriteOutput(t)
    \/ UpdateStats(t) \/ Except(t) \/ CompileLocal(t)
    \/ DecrActive(t) \/ Return(t)

Next ==
    \/ \E t \in Threads : Step(t)
    \/ \E w \in Workers : ProbePong(w) \/ ProbeFail(w)

Spec == Init /\ [][Next]_vars

(***************************************************************************)
(* Properties of the dispatcher.                                           *)
(***************************************************************************)
InFlight(t) == th[t].pc \notin {"idle", "done"}
Quiescent == \A t \in Threads : ~InFlight(t)
ErrDoc == [tag |-> "ERR", payload |-> "doc"]

\* C1: pool accounting of active_jobs.  In every reachable state every
\* worker's active_jobs is >= 0, and it is 0 whenever no compile_file call
\* is in flight, whatever the outcomes of the calls were.
C1_PoolAccounting ==
    \A w \in Workers :
        /\ workers[w].active_jobs >= 0
        /\ Quiescent => workers[w].active_jobs = 0

\* A quiescent state after a call that failed on its worker with an
\* exception.
C1_Witness ==
    /\ Quiescent
    /\ \E t \in Threads :
         th[t].pc = "done" /\ th[t].marked_down /\ th[t].worker # 0

\* C2: fallback coverage.  A call that found no available worker with
\* local_fallback enabled opens no connection and sends nothing, runs the
\* local compiler on exactly the call's compiler, include paths, defines,
\* args, source and output, and returns success iff that run exits with 0.
C2_FallbackCoverage ==
    \A t \in Threads :
        (th[t].pc = "done" /\ th[t].worker = 0 /\ local_fallback) =>
            LET job == th[t].job
                cmd == th[t].local_cmd
                n == Len(cmd)
                ni == Len(job.include_paths)
                nd == Len(job.defines)
                na == Len(job.args)
            IN  /\ th[t].sock = "none" /\ th[t].sent = << >>
                /\ th[t].conns = 0 /\ th[t].sels = 0
                /\ n = 1 + 2 * ni + 2 * nd + na + 4
                /\ cmd[1] = <<job.compiler>>
                /\ \A i \in 1..ni :
                     cmd[2 * i] = <<"-I">>
                     /\ cmd[2 * i + 1] = job.include_paths[i]
                /\ \A i \in 1..nd :
                     cmd[2 * ni + 2 * i] = <<"-D">>
                     /\ cmd[2 * ni + 2 * i + 1] = job.defines[i]
                /\ \A i \in 1..na : cmd[1 + 2 * ni + 2 * nd + i] = job.args[i]
                /\ cmd[n - 3] = <<"-c">> /\ cmd[n - 2] = job.source_path
                /\ cmd[n - 1] = <<"-o">> /\ cmd[n] = job.output_path
                /\ th[t].result.ok <=> th[t].local_rc = 0

\* A no-worker call whose local compile failed with a non-zero exit code.
C2_Witness ==
    \E t \in Threads :
        /\ th[t].pc = "done" /\ th[t].worker = 0 /\ local_fallback
        /\ th[t].local_rc = 1 /\ ~th[t].result.ok
        /\ Len(th[t].job.include_paths) > 0

\* C3: after a transport failure on a job dispatched to w, w.available is
\* false, and no get_best_worker call returns w, until a probe of w
\* succeeds (downSince holds the workers in between).
C3_DownUntilProbe ==
    /\ [](\A w \in downSince : ~workers[w].available)
    /\ [][\A t \in Threads :
            (th[t].pc = "select" /\ th'[t].pc = "incr")
                => th'[t].worker \notin downSince]_vars

\* A call selects a worker while another worker is down after a failure.
C3_Witness ==
    \E t \in Threads :
        /\ th[t].pc = "incr"
        /\ downSince # {}
        /\ th[t].worker \notin downSince

\* C4: a remote compiler error is a job outcome.  A call answered by an ERR
\* frame with the JSON failure document returns failure with the document's
\* stderr, and has neither marked the worker unavailable, nor counted the
\* job in total_jobs, nor run the local compiler.
C4_CompilerErrorIsOutcome ==
    \A t \in Threads :
        (th[t].reply = ErrDoc /\ th[t].pc \in {"decr", "done"}) =>
            /\ th[t].result = [ok |-> FALSE, msg |-> "stderr"]
            /\ ~th[t].marked_down
            /\ ~th[t].counted
            /\ th[t].local_cmd = << >>

\* A call answered with ERR has returned, with the local fallback enabled
\* and its worker still available.
C4_Witness ==
    \E t \in Threads :
        /\ th[t].pc = "done" /\ th[t].reply = ErrDoc
        /\ local_fallback
        /\ workers[th[t].worker].available

\* C7: no retry across workers.  A compile_file call selects at most one
\* worker and opens at most one connection; after a failure on that worker
\* the call is past selection for good.
C7_NoRetry ==
    \A t \in Threads :
        /\ th[t].sels <= 1
        /\ th[t].conns <= 1
        /\ th[t].marked_down => th[t].pc \in {"local", "decr", "done"}

\* A call has failed on its worker and returned while another worker was
\* available.
C7_Witness ==
    \E t \in Threads :
        /\ th[t].pc = "done" /\ th[t].marked_down
        /\ th[t].sels = 1
        /\ \E w \in Workers : w # th[t].worker /\ workers[w].available

\* C21: available turns from false to true only in a probe that received a
\* PONG.  A step that makes an unavailable worker available is no step of
\* a compile_file call (no thread moves) and stores the SystemInfo of the
\* worker's PONG in its cpus and load.
C21_OnlyProbeRevives ==
    [][\A w \in Workers :
         (~workers[w].available /\ workers'[w].available) =>
             /\ th' = th
             /\ workers'[w].cpus = SystemInfo(w).cpus
             /\ workers'[w].load = SystemInfo(w).load]_vars

\* A worker is available again while the call that marked it unavailable
\* is still running.
C21_Witness ==
    \E t \in Threads :
        /\ th[t].marked_down
        /\ th[t].pc \in {"local", "decr"}
        /\ workers[th[t].worker].available

C31_UniqueJobIds ==
    /\ [](\A t, u \in Threads :
            (t # u /\ InFlight(t) /\ InFlight(u)) =>
                th[t].job_id # th[u].job_id)
    /\ [][\A t \in Threads :
            (th[t].pc = "idle" /\ th'[t].pc # "idle") =>
                /\ job_counter' = job_counter + 1
                /\ th'[t].job_id = job_counter']_vars

\* Two calls are running at the same time, each with its job id.
C31_Witness ==
    /\ \A t \in Threads : InFlight(t)
    /\ job_counter = NumThreads

\* C17: selection and increment are atomic together.  While a call has
\* selected its worker and not yet added itself to the worker's
\* active_jobs, no other call selects: so no two calls are ever both
\* between their selection and their increment.
C17_SelectIncrAtomic ==
    \A t, u \in Threads :
        (t # u /\ th[t].pc = "incr") => th[u].pc # "incr"

\* The reply the call read breaks the protocol: a first frame with a tag
\* other than OK and ERR, a frame other than OBJ after OK, or an OK or ERR
\* payload that is not a JSON document.
ProtocolError(fr) ==
    \/ fr.reply # NoFrame /\ fr.reply.tag \notin {"OK", "ERR"}
    \/ fr.reply # NoFrame /\ ~JsonObject(fr.reply.payload)
    \/ fr.reply2 \notin {"none", "OBJ"}

\* C20: a protocol error is treated as transport-class.  A call whose
\* worker broke the protocol has marked the worker unavailable, and has
\* ended in the local compile when the fallback is enabled and in a failure
\* otherwise.
C20_ProtocolErrorMarksDown ==
    \A t \in Threads :
        (th[t].pc \in {"decr", "done"} /\ ProtocolError(th[t])) =>
            /\ th[t].marked_down
            /\ IF local_fallback THEN th[t].local_cmd # << >>
               ELSE ~th[t].result.ok

(***************************************************************************)
(* get_best_worker on its own: every pool of up to MaxPool workers.        *)
(***************************************************************************)
\* The WorkerStates a pool is built from: weights 1.0, 1.5 and 2.0 as in
\* DEFAULT_WORKERS, loads 0.0 and 0.5.
PoolStates ==
    [weight : {2, 3, 4}, available : BOOLEAN, cpus : {1, 2}, load : {0, 1},
     active_jobs : 0..MaxActive, total_jobs : {0}]

\* The pool gets one more worker.
PoolAppend ==
    /\ Len(pool) < MaxPool
    /\ \E ws \in PoolStates : pool' = Append(pool, ws)
    /\ chosen' = -1
    /\ UNCHANGED <<dvars, program, xvars, wvars, kvars>>

\* Lines 154-165: get_best_worker() on the pool.
PoolSelect ==
    /\ chosen = -1
    /\ chosen' = get_best_worker(pool)
    /\ UNCHANGED <<dvars, pool, program, xvars, wvars, kvars>>

SelInit ==
    /\ AllAtStart
    /\ local_fallback = TRUE
    /\ program = "get_best_worker"

SelNext == PoolAppend \/ PoolSelect

SelSpec == SelInit /\ [][SelNext]_vars

\* C5: selection policy.  get_best_worker returns None exactly when no
\* worker is available; otherwise it returns an available worker whose
\* score no available worker exceeds, the earliest in the list among those
\* of that score.
C5_SelectionPolicy ==
    chosen # -1 =>
        /\ chosen = 0 <=> (\A i \in 1..Len(pool) : ~pool[i].available)
        /\ chosen # 0 =>
             /\ chosen \in 1..Len(pool)
             /\ pool[chosen].available
             /\ \A j \in 1..Len(pool) :
                  pool[j].available =>
                     /\ ~ScoreGreater(pool[j], pool[chosen])
                     /\ ~ScoreGreater(pool[chosen], pool[j]) => chosen <= j

\* Two available workers of equal score at different weights and loads, and
\* the first is chosen.
C5_Witness ==
    /\ chosen = 1 /\ Len(pool) = 2
    /\ pool[1].available /\ pool[2].available
    /\ pool[1].weight # pool[2].weight
    /\ ~ScoreGreater(pool[1], pool[2]) /\ ~ScoreGreater(pool[2], pool[1])

\* a and b differ in exactly one of active_jobs, weight and load, and a has
\* the fewer active_jobs, the higher weight or the lower load.
DiffersForTheBetter(a, b) ==
    /\ a.cpus = b.cpus
    /\ \/ a.active_jobs < b.active_jobs
          /\ a.weight = b.weight /\ a.load = b.load
       \/ a.weight > b.weight
          /\ a.active_jobs = b.active_jobs /\ a.load = b.load
       \/ a.load < b.load
          /\ a.active_jobs = b.active_jobs /\ a.weight = b.weight

\* C6: selection monotonicity.  When two available workers differ only in
\* active_jobs, only in weight or only in load, get_best_worker does not
\* return the one with more active_jobs, the lower weight or the higher
\* load, wherever the two stand in the list; of a pool of just these two it
\* returns the other one.
C6_SelectionMonotone ==
    chosen # -1 =>
        \A i, j \in 1..Len(pool) :
            (/\ pool[i].available /\ pool[j].available
             /\ DiffersForTheBetter(pool[i], pool[j])) =>
                /\ chosen # j
                /\ Len(pool) = 2 => chosen = i

\* The better worker is second in the list and differs only in active_jobs.
C6_Witness ==
    /\ chosen = 2 /\ Len(pool) = 2
    /\ pool[1].available /\ pool[2].available
    /\ pool[2].active_jobs < pool[1].active_jobs
    /\ DiffersForTheBetter(pool[2], pool[1])

(***************************************************************************)
(* The wrapper: main and try_remote_compile of ppc_compile_wrapper.py.     *)
(***************************************************************************)
Hosts == 1..NumHosts

\* The return codes an ERR document can report; 0 stands for a document
\* without a returncode.
ErrCodes == {0, 1, 2}

\* Lines 428-453: main decides that the invocation is a compile job to
\* distribute, reads the fallback flag and starts on the first host, or runs
\* the compiler locally (distribution disabled, not a compile job, no
\* source).
WrapMain ==
    /\ wr.pc = "main"
    /\ \/ \E fb \in {"0", "1"} :
            wr' = [wr EXCEPT !.pc = "connect", !.host = 1, !.fallback = fb]
       \/ wr' = [wr EXCEPT !.pc = "local"]
    /\ UNCHANGED <<dvars, svars, program, xvars, kvars>>

\* Lines 393-404: the except and finally clauses of try_remote_compile: it
\* returns None with the socket closed.
WrapRaise(fr) ==
    [fr EXCEPT !.pc = "next", !.result = -1,
               !.sock = IF @ = "open" THEN "closed" ELSE @]

\* Lines 399-404 after a return statement: the socket is closed and main
\* has the result.
WrapReturn(fr, rc) ==
    [fr EXCEPT !.pc = "next", !.result = rc,
               !.sock = IF @ = "open" THEN "closed" ELSE @]

\* Lines 290-300: connect to the host and read the source file.
WrapConnect ==
    /\ wr.pc = "connect"
    /\ \/ wr' = [wr EXCEPT !.pc = "send", !.sock = "open", !.sent = << >>,
                           !.reply = NoFrame, !.errcode = -1,
                           !.reply2 = "none", !.stored = FALSE]
       \/ wr' = WrapRaise([wr EXCEPT !.sock = "unconnected",
                                     !.sent = << >>, !.reply = NoFrame,
                                     !.errcode = -1, !.reply2 = "none",
                                     !.stored = FALSE])
    /\ UNCHANGED <<dvars, svars, program, xvars, kvars>>

\* Lines 345-348: the frames of a job, in the order the wrapper sends them.
WrapperFrames == <<"JOB", "SRC", "HDR">>

\* One send_message call of lines 346-348.
WrapSend ==
    /\ wr.pc = "send"
    /\ LET n == Len(wr.sent) + 1 IN
         \/ wr' = [wr EXCEPT !.sent = Append(@, WrapperFrames[n]),
                             !.pc = IF n = Len(WrapperFrames) THEN "recv"
                                    ELSE "send"]
         \/ wr' = WrapRaise(wr)
    /\ UNCHANGED <<dvars, svars, program, xvars, kvars>>

\* response.get('returncode', 0)
ReturnCodeOrZero(rc) == rc

\* Line 360: response.get('returncode', 1), for a document with returncode
\* rc, or without one (rc = 0).
ReturnCode(rc) == IF rc = 0 THEN 1 ELSE rc

\* Lines 350-391: the first reply frame.  In the ERR branch the document's
\* stderr text is written to sys.stderr (lines 357-359) inside the try
\* statement; the write raises on a closed stream, or on text the stream
\* cannot encode.
WrapRecvReply ==
    /\ wr.pc = "recv"
    /\ \/ \E f \in ReplyFrames :
            IF f.tag = "ERR"
            THEN IF JsonObject(f.payload)
                 THEN \E rc \in ErrCodes :
                        \/ wr' = WrapReturn([wr EXCEPT !.reply = f,
                                                       !.errcode = rc],
                                            ReturnCode(rc))
                        \/ wr' = WrapRaise([wr EXCEPT !.reply = f,
                                                      !.errcode = rc])
                 ELSE wr' = WrapRaise([wr EXCEPT !.reply = f])
            ELSE IF f.tag = "OK"
            THEN IF JsonObject(f.payload)
                 THEN wr' = [wr EXCEPT !.pc = "recv_obj", !.reply = f]
                 ELSE wr' = WrapRaise([wr EXCEPT !.reply = f])
            ELSE wr' = WrapReturn([wr EXCEPT !.reply = f], 1)
       \/ wr' = WrapRaise(wr)
    /\ UNCHANGED <<dvars, svars, program, xvars, kvars>>

\* Lines 367-370: the frame after OK.
WrapRecvObj ==
    /\ wr.pc = "recv_obj"
    /\ \/ \E f \in ReplyFrames :
            IF f.tag = "OBJ"
            THEN wr' = [wr EXCEPT !.pc = "write", !.reply2 = f.tag]
            ELSE wr' = WrapReturn([wr EXCEPT !.reply2 = f.tag], 1)
       \/ wr' = WrapRaise(wr)
    /\ UNCHANGED <<dvars, svars, program, xvars, kvars>>

\* Lines 372-388: the object file is written and 0 returned; or open
\* raises, or write raises on the file that open has truncated; or, with
\* the file written, the write of the document's warnings to sys.stderr
\* (lines 380-382) raises.
WrapWrite ==
    /\ wr.pc = "write"
    /\ \/ wr' = WrapReturn([wr EXCEPT !.stored = TRUE,
                                       !.output = "written"], 0)
       \/ wr' = WrapRaise([wr EXCEPT !.stored = TRUE,
                                     !.output = "written"])
       \/ wr' = WrapRaise(wr)
       \/ wr' = WrapRaise([wr EXCEPT !.output = "partial"])
    /\ UNCHANGED <<dvars, svars, program, xvars, kvars>>

\* Lines 454-466: main takes the result of try_remote_compile: it returns
\* it, goes on to the next host, or is through the list.
WrapNext ==
    /\ wr.pc = "next"
    /\ IF wr.result # -1
       THEN wr' = [wr EXCEPT !.pc = "exit", !.exit = wr.result]
       ELSE IF wr.host < NumHosts
       THEN wr' = [wr EXCEPT !.pc = "connect", !.host = @ + 1]
       ELSE IF wr.fallback # "0"
       THEN wr' = [wr EXCEPT !.pc = "local"]
       ELSE wr' = [wr EXCEPT !.pc = "exit", !.exit = 1]
    /\ UNCHANGED <<dvars, svars, program, xvars, kvars>>

\* Lines 407-416: compile_local: the exit code of the local compiler.
WrapLocal ==
    /\ wr.pc = "local"
    /\ \E rc \in {0, 1} :
         wr' = [wr EXCEPT !.pc = "exit", !.local_rc = rc, !.exit = rc,
                          !.output = IF rc = 0 THEN "written" ELSE @]
    /\ UNCHANGED <<dvars, svars, program, xvars, kvars>>

WrapInit ==
    /\ AllAtStart
    /\ local_fallback = TRUE
    /\ program = "wrapper"

WrapperNext ==
    \/ WrapMain \/ WrapConnect \/ WrapSend \/ WrapRecvReply \/ WrapRecvObj
    \/ WrapWrite \/ WrapNext \/ WrapLocal

WrapSpec == WrapInit /\ [][WrapperNext]_vars

C33_HostIteration ==
    /\ (wr.pc = "connect" /\ wr.host > 1) => wr.result = -1
    /\ (wr.pc = "next" /\ (wr.stored \/ wr.reply = ErrDoc)) =>
          wr.result # -1
    /\ (wr.pc = "local" /\ wr.host >= 1) =>
          /\ wr.host = NumHosts /\ wr.result = -1 /\ wr.fallback # "0"
          /\ wr.output # "written"

(***************************************************************************)
(* The two clients of the worker protocol: a run of the dispatcher or a    *)
(* run of the wrapper.                                                     *)
(***************************************************************************)
ClientInit ==
    /\ AllAtStart
    /\ local_fallback \in BOOLEAN
    /\ program \in {"dispatcher", "wrapper"}

ClientNext ==
    \/ program = "dispatcher" /\ Next
    \/ program = "wrapper" /\ WrapperNext

ClientSpec == ClientInit /\ [][ClientNext]_vars

IsPrefix(s1, s2) ==
    Len(s1) <= Len(s2) /\ \A i \in 1..Len(s1) : s1[i] = s2[i]

JobSrcHdr == <<"JOB", "SRC", "HDR">>

\* C8: client frame order.  On every compile connection of the dispatcher
\* and of the wrapper the frames sent so far are a prefix of JOB, SRC, HDR
\* at all times, so nothing else is ever sent and nothing in another order,
\* and a reply is read only when all three have been sent.
C8_ClientFrameOrder ==
    /\ \A t \in Threads :
         /\ IsPrefix(th[t].sent, JobSrcHdr)
         /\ (th[t].pc \in {"recv", "recv_obj", "write", "stats"}
               \/ th[t].reply # NoFrame) => th[t].sent = JobSrcHdr
    /\ IsPrefix(wr.sent, JobSrcHdr)
    /\ (wr.pc \in {"recv", "recv_obj", "write"} \/ wr.reply # NoFrame)
          => wr.sent = JobSrcHdr

\* The wrapper has read both reply frames on its second host's connection,
\* after a first connection that broke before the HDR frame.
C8_Witness ==
    wr.pc = "exit" /\ wr.host = 2 /\ wr.stored /\ wr.sent = JobSrcHdr

OkDoc == [tag |-> "OK", payload |-> "doc"]

\* C32: the object file is written atomically.  Whatever happens while
\* the dispatcher or the wrapper stores the OBJ payload, the output path
\* holds what it held before or the complete object: never a file that was
\* opened for writing and not written in full.
C32_AtomicObjectWrite ==
    /\ \A t \in Threads : th[t].output # "partial"
    /\ wr.output # "partial"

\* C15: no output on failure.  A step of a remote attempt of the dispatcher
\* or of the wrapper creates or modifies the file at the output path only
\* when the attempt has read an OK frame and then an OBJ frame; after an ERR
\* reply, a reply with an unexpected tag or a connection that failed before
\* the OBJ frame was read, only the local compiler touches the file.
C15_NoOutputOnFailure ==
    /\ [][\A t \in Threads :
            (th'[t].output # th[t].output /\ th'[t].output # "untouched") =>
                \/ th[t].pc = "local"
                \/ th[t].reply = OkDoc /\ th[t].reply2 = "OBJ"]_vars
    /\ [][wr'.output # wr.output =>
            \/ wr.pc = "local"
            \/ wr.reply = OkDoc /\ wr.reply2 = "OBJ"]_vars

\* A call of the dispatcher without local fallback has ended on a frame
\* other than OBJ after OK, and the file at its output path is untouched.
C15_Witness ==
    \E t \in Threads :
        /\ th[t].pc = "done" /\ ~local_fallback
        /\ th[t].reply = OkDoc /\ th[t].reply2 \notin {"none", "OBJ"}
        /\ th[t].output = "untouched"

(***************************************************************************)
(* The worker daemon: main, handle_client and handle_compile_job of        *)
(* ppc_compile_worker.py, one handler thread per connection.               *)
(***************************************************************************)
\* The frames a client can send.  A JOB payload is "doc" (a JobRequest
\* without source_data), "inline" (a JobRequest with a non-empty base64
\* source_data) or "text" (not a JSON object); an HDR payload is "doc" (a
\* JSON object of base64 strings), "bad_b64" (a JSON object whose content
\* does not decode) or "text".
ClientFrameSet ==
    [tag : {"JOB"}, payload : {"doc", "inline", "text"}]
      \cup [tag : {"HDR"}, payload : {"doc", "bad_b64", "text"}]
      \cup [tag : {"PING", "SRC", "QUIT", "XXXX"}, payload : {"text"}]

Handler(c, fr) == conn' = [conn EXCEPT ![c] = fr]

\* Lines 381-384: accept, and a handle_client thread for the connection.
Accept(c) ==
    /\ conn[c].pc = "listen"
    /\ Handler(c, [conn[c] EXCEPT !.pc = "loop"])
    /\ UNCHANGED <<dvars, svars, program, xvars, wvars, fs>>

\* Lines 275-280, reached by a return or the end of the try block: the
\* workspace is removed and handle_client's loop goes on.
JobReturns(c, fr) ==
    /\ Handler(c, [fr EXCEPT !.pc = "loop", !.job = "returned"])
    /\ fs' = fs \ {fr.tmpdir}

\* JobRaises with the rmtree at the end of the function instead of in a
\* finally clause: an exception leaves the workspace behind.
JobRaisesNoCleanup(c, fr) ==
    /\ Handler(c, [fr EXCEPT !.pc = "end", !.job = "raised"])
    /\ fs' = fs

\* Lines 275-280 and 305-308, reached by an exception: the workspace is
\* removed, handle_client catches the exception and closes the connection.
JobRaises(c, fr) ==
    /\ Handler(c, [fr EXCEPT !.pc = "end", !.job = "raised"])
    /\ fs' = fs \ {fr.tmpdir}

\* JobBegins with a workspace name that mkdtemp does not check against the
\* directories that exist.
JobBeginsAnyDir(c, fr, f) ==
    IF f.payload = "text"
    THEN /\ Handler(c, [fr EXCEPT !.pc = "end", !.job = "raised",
                                  !.tmpdir = 0, !.deviation = "job_json"])
         /\ fs' = fs
    ELSE \E d \in DirNames :
           /\ fs' = fs \cup {d}
           /\ Handler(c, [fr EXCEPT !.job = "running", !.tmpdir = d,
                            !.pc = IF f.payload = "inline"
                                   THEN "write_src" ELSE "recv_src"])

\* Lines 171-201: handle_compile_job up to its first read: the JobRequest
\* is parsed, the workspace made, an inline source decoded.
JobBegins(c, fr, f) ==
    IF f.payload = "text"
    THEN \* json.loads or job.get raises before the workspace is made
         /\ Handler(c, [fr EXCEPT !.pc = "end", !.job = "raised",
                                  !.tmpdir = 0, !.deviation = "job_json"])
         /\ fs' = fs
    ELSE \E d \in DirNames \ fs :
           /\ fs' = fs \cup {d}
           /\ Handler(c, [fr EXCEPT !.job = "running", !.tmpdir = d,
                            !.pc = IF f.payload = "inline"
                                   THEN "write_src" ELSE "recv_src"])

\* Lines 287-308: the connection loop reads a frame and dispatches on its
\* tag; a failed read or send ends the handler.
RecvTop(c) ==
    /\ conn[c].pc = "loop"
    /\ \/ /\ conn[c].nrecv < MaxRecv
          /\ \E f \in ClientFrameSet :
               LET fr == [conn[c] EXCEPT !.nrecv = @ + 1, !.msg = f.tag,
                             !.reply = << >>, !.job = "none", !.tmpdir = 0,
                             !.io_error = FALSE, !.ran = FALSE,
                             !.nread = 0, !.deviation = "none"]
               IN  IF f.tag = "PING"
                   THEN /\ \/ Handler(c, [fr EXCEPT !.reply = <<"PONG">>])
                           \/ Handler(c, [fr EXCEPT !.pc = "end",
                                                    !.io_error = TRUE])
                        /\ fs' = fs
                   ELSE IF f.tag = "JOB"
                   THEN JobBegins(c, fr, f)
                   ELSE IF f.tag = "QUIT"
                   THEN Handler(c, [fr EXCEPT !.pc = "end"]) /\ fs' = fs
                   ELSE /\ \/ Handler(c, [fr EXCEPT !.reply = <<"ERR">>])
                           \/ Handler(c, [fr EXCEPT !.pc = "end",
                                                    !.io_error = TRUE])
                        /\ fs' = fs
       \/ /\ Handler(c, [conn[c] EXCEPT !.pc = "end", !.msg = "none",
                           !.reply = << >>, !.job = "none", !.tmpdir = 0,
                           !.io_error = TRUE, !.ran = FALSE,
                           !.nread = 0, !.deviation = "none"])
          /\ fs' = fs
    /\ UNCHANGED <<dvars, svars, program, xvars, wvars>>

\* Lines 192-196: the source is read from the next frame, which must be SRC.
JobRecvSrc(c) ==
    /\ conn[c].pc = "recv_src"
    /\ \/ /\ conn[c].nrecv < MaxRecv
          /\ \E f \in ClientFrameSet :
               LET fr == [conn[c] EXCEPT !.nrecv = @ + 1,
                                         !.nread = @ + 1] IN
               IF f.tag = "SRC"
               THEN Handler(c, [fr EXCEPT !.pc = "write_src"]) /\ fs' = fs
               ELSE \/ JobReturns(c, [fr EXCEPT !.reply = <<"ERR">>,
                                               !.deviation = "not_src"])
                    \/ JobRaises(c, [fr EXCEPT !.io_error = TRUE,
                                              !.deviation = "not_src"])
       \/ JobRaises(c, [conn[c] EXCEPT !.io_error = TRUE])
    /\ UNCHANGED <<dvars, svars, program, xvars, wvars>>

\* Lines 197-204: an inline source is decoded and the source file written;
\* b64decode or open can raise.
JobWriteSrc(c) ==
    /\ conn[c].pc = "write_src"
    /\ \/ Handler(c, [conn[c] EXCEPT !.pc = "recv_hdr"]) /\ fs' = fs
       \/ JobRaises(c, conn[c])
    /\ UNCHANGED <<dvars, svars, program, xvars, wvars>>

\* Lines 206-217: the next frame is read; an HDR frame is parsed and its
\* headers written, a frame with another tag is dropped.
JobRecvHdr(c) ==
    /\ conn[c].pc = "recv_hdr"
    /\ \/ /\ conn[c].nrecv < MaxRecv
          /\ \E f \in ClientFrameSet :
               LET fr == [conn[c] EXCEPT !.nrecv = @ + 1,
                                         !.nread = @ + 1] IN
               IF f.tag = "HDR" /\ f.payload # "doc"
               THEN JobRaises(c, [fr EXCEPT !.deviation = "hdr_decode"])
               ELSE IF f.tag = "HDR"
               THEN Handler(c, [fr EXCEPT !.pc = "compile"]) /\ fs' = fs
               ELSE Handler(c, [fr EXCEPT !.pc = "compile",
                                          !.deviation = "not_hdr"])
                    /\ fs' = fs
       \/ JobRaises(c, [conn[c] EXCEPT !.io_error = TRUE])
    /\ UNCHANGED <<dvars, svars, program, xvars, wvars>>

\* Lines 219-262: the compiler runs in the workspace.  Popen raises when the
\* executable cannot be started; after exit code 0 the object file is read.
JobCompile(c) ==
    /\ conn[c].pc = "compile"
    /\ \/ Handler(c, [conn[c] EXCEPT !.pc = "send_err", !.ran = TRUE])
          /\ fs' = fs
       \/ Handler(c, [conn[c] EXCEPT !.pc = "send_ok", !.ran = TRUE])
          /\ fs' = fs
       \/ JobRaises(c, conn[c])
    /\ UNCHANGED <<dvars, svars, program, xvars, wvars>>

\* Line 257: the ERR frame with the failure document.
JobSendErr(c) ==
    /\ conn[c].pc = "send_err"
    /\ \/ JobReturns(c, [conn[c] EXCEPT !.reply = <<"ERR">>])
       \/ JobRaises(c, [conn[c] EXCEPT !.io_error = TRUE])
    /\ UNCHANGED <<dvars, svars, program, xvars, wvars>>

\* Line 272: the OK frame with the success document.
JobSendOk(c) ==
    /\ conn[c].pc = "send_ok"
    /\ \/ Handler(c, [conn[c] EXCEPT !.pc = "send_obj", !.reply = <<"OK">>])
          /\ fs' = fs
       \/ JobRaises(c, [conn[c] EXCEPT !.io_error = TRUE])
    /\ UNCHANGED <<dvars, svars, program, xvars, wvars>>

\* Line 273: the OBJ frame.
JobSendObj(c) ==
    /\ conn[c].pc = "send_obj"
    /\ \/ JobReturns(c, [conn[c] EXCEPT !.reply = <<"OK", "OBJ">>])
       \/ JobRaises(c, [conn[c] EXCEPT !.io_error = TRUE])
    /\ UNCHANGED <<dvars, svars, program, xvars, wvars>>

DaemonInit ==
    /\ AllAtStart
    /\ local_fallback = TRUE
    /\ program = "worker"

DaemonNext ==
    \E c \in Conns :
        \/ Accept(c) \/ RecvTop(c) \/ JobRecvSrc(c) \/ JobWriteSrc(c)
        \/ JobRecvHdr(c) \/ JobCompile(c) \/ JobSendErr(c) \/ JobSendOk(c)
        \/ JobSendObj(c)

DaemonSpec == DaemonInit /\ [][DaemonNext]_vars

\* C9: worker reply shape.  For every JOB frame the worker receives, when
\* handle_compile_job is through with it without a socket error, it has
\* sent exactly one response: OK directly followed by OBJ, or one ERR.
C9_ReplyShape ==
    \A c \in Conns :
        (conn[c].job \in {"returned", "raised"} /\ ~conn[c].io_error) =>
            conn[c].reply \in {<<"OK", "OBJ">>, <<"ERR">>}

\* C10: workspace cleanup.  The workspace directories on the worker's disk
\* are exactly those of the jobs still being handled: when a handler is
\* through with a job, on any exit path, the workspace it made is gone.
C10_WorkspaceCleanup ==
    fs = {conn[c].tmpdir : c \in {k \in Conns : conn[k].job = "running"}}

\* A job has ended in an exception after its workspace was made, with no
\* socket error (a decode error, or a compiler that could not be started),
\* and another has returned after a compile.
C10_Witness ==
    \E c, k \in Conns :
        /\ conn[c].job = "raised" /\ conn[c].tmpdir # 0
        /\ ~conn[c].io_error
        /\ conn[k].job = "returned" /\ conn[k].ran

\* C24: deviations of a job are answered with ERR.  When handle_compile_job
\* is through with a job whose JobRequest was no valid JSON, whose frame
\* after JOB was not SRC, whose frame after SRC was not HDR or whose HDR
\* payload did not decode, and no socket call failed, the worker has not
\* run the compiler, has sent exactly one ERR frame and has removed the
\* workspace.
C24_DeviationsAnsweredWithErr ==
    \A c \in Conns :
        (/\ conn[c].job \in {"returned", "raised"}
         /\ conn[c].deviation # "none"
         /\ ~conn[c].io_error) =>
            /\ ~conn[c].ran
            /\ conn[c].reply = <<"ERR">>
            /\ \/ conn[c].tmpdir \notin fs
               \/ \E k \in Conns \ {c} :
                     conn[k].job = "running" /\ conn[k].tmpdir = conn[c].tmpdir

\* C25: the worker always takes the source from the SRC frame.  Whatever
\* the JobRequest holds, a job that reached the compiler has read exactly
\* the two frames after its JOB frame, the first of them as SRC, so the
\* connection loop's next read is the frame after the client's HDR.
C25_SourceFromSrcFrame ==
    \A c \in Conns : conn[c].ran => conn[c].nread = 2

\* C26: no two concurrent jobs share a workspace.  Two jobs being handled
\* at the same time on different connections have different workspace
\* directories, and both directories exist: the cleanup of another job
\* has removed neither.
C26_DistinctWorkspaces ==
    \A c, k \in Conns :
        (c # k /\ conn[c].job = "running" /\ conn[k].job = "running") =>
            /\ conn[c].tmpdir # conn[k].tmpdir
            /\ conn[c].tmpdir \in fs
            /\ conn[k].tmpdir \in fs

\* Two jobs are being handled at the same time, one of them past its
\* compiler run.
C26_Witness ==
    \E c, k \in Conns :
        /\ c # k
        /\ conn[c].job = "running" /\ conn[c].ran
        /\ conn[k].job = "running"

\* C28: the connection loop.  The handler has closed the connection only
\* after a QUIT frame or after a socket call failed; after a QUIT frame it
\* has closed the connection and sent nothing.
C28_ConnectionLoop ==
    \A c \in Conns :
        /\ conn[c].pc = "end" => (conn[c].msg = "QUIT" \/ conn[c].io_error)
        /\ conn[c].msg = "QUIT" =>
              (conn[c].pc = "end" /\ conn[c].reply = << >>)

(***************************************************************************)
(* compile_many: a batch of jobs on the executor's threads.                *)
(***************************************************************************)
bothers ==
    <<th, svars, program, wire, req, lock, access, probe, wrote, workspace,
      spread, wvars, kvars>>

\* The job lists compile_many is called with, each job named by its source
\* path: n jobs on n different sources, or with job d on the source of
\* job 1.
BatchInputs ==
    UNION {{[i \in 1..n |-> IF i = d THEN 1 ELSE i] : d \in 1..n} :
             n \in 1..MaxBatch}

\* The pool when compile_many is called: what the probes of __init__ left.
BatchPools ==
    [Workers ->
       [weight : {4}, available : BOOLEAN, cpus : {1, 3}, load : {0},
        active_jobs : {0}, total_jobs : {0}]]

RECURSIVE SumOver(_, _)
SumOver(f, S) ==
    IF S = {} THEN 0
    ELSE LET x == CHOOSE y \in S : TRUE IN f[x] + SumOver(f, S \ {x})

\* Line 310: sum(w.cpus for w in self.workers if w.available)
AvailableCpus ==
    SumOver([w \in Workers |-> IF workers[w].available
                               THEN workers[w].cpus ELSE 0], Workers)

\* Line 311: max(max_parallel, 4)
DefaultParallel(n) == IF n > 4 THEN n ELSE 4

\* The calls of compile_file that a thread of the executor is running.
Running(i) == batch.fut[i].st \in {"incr", "remote", "local", "decr"}
InFlightCount == Cardinality({i \in 1..Len(batch.fut) : Running(i)})

\* An executor that starts a thread for every work item.
ExecutorUnbounded == TRUE

\* Line 315: ThreadPoolExecutor(max_workers=max_parallel) has a thread free
\* for the next work item.
ExecutorHasThread == InFlightCount < batch.max_parallel

Future(i, f) == batch' = [batch EXCEPT !.fut[i] = f]

\* Lines 306-315: compile_many is called, with or without max_parallel
\* (mp = 0: not given).
BatchCall ==
    /\ batch.pc = "none"
    /\ \E jobs \in BatchInputs, mp \in 0..MaxGiven :
         batch' = [NoBatch EXCEPT
                     !.pc = "submit", !.jobs = jobs, !.given = (mp # 0),
                     !.cpus0 = AvailableCpus,
                     !.max_parallel = IF mp = 0
                                      THEN DefaultParallel(AvailableCpus)
                                      ELSE mp,
                     !.fut = [i \in 1..Len(jobs) |-> NoFuture]]
    /\ UNCHANGED <<dvars, bothers>>

\* Lines 317-327: executor.submit for the next job of the list; after the
\* last one the caller waits in as_completed.
BatchSubmit ==
    /\ batch.pc = "submit"
    /\ LET i == batch.submitted + 1 IN
         batch' = [batch EXCEPT
                     !.submitted = i, !.fut[i].st = "queued",
                     !.pc = IF i = Len(batch.jobs) THEN "collect" ELSE @]
    /\ UNCHANGED <<dvars, bothers>>

\* Lines 173-188 on a thread of the executor: the oldest queued work item
\* starts, compile_file mints the job id and selects a worker.
BatchSelect(i) ==
    /\ i <= Len(batch.fut)
    /\ batch.fut[i].st = "queued"
    /\ \A j \in 1..(i - 1) : batch.fut[j].st # "queued"
    /\ ExecutorHasThread
    /\ job_counter' = job_counter + 1
    /\ LET w == get_best_worker(PoolList) IN
         IF w # 0
         THEN Future(i, [batch.fut[i] EXCEPT !.st = "incr", !.worker = w])
         ELSE IF local_fallback
         THEN Future(i, [batch.fut[i] EXCEPT !.st = "local"])
         ELSE Future(i, [batch.fut[i] EXCEPT !.st = "finished",
                                            !.outcome = "fail"])
    /\ UNCHANGED <<workers, local_fallback, th, downSince, bothers>>

\* Lines 190-191.
BatchIncr(i) ==
    /\ i <= Len(batch.fut)
    /\ batch.fut[i].st = "incr"
    /\ workers' = [workers EXCEPT ![batch.fut[i].worker].active_jobs = @ + 1]
    /\ Future(i, [batch.fut[i] EXCEPT !.st = "remote"])
    /\ UNCHANGED <<local_fallback, job_counter, th, downSince, bothers>>

\* Lines 200-286: _compile_remote from connect to return: the job succeeds
\* on the worker, or the worker answers with a failure, or an exception
\* marks the worker unavailable and the local compile, when enabled,
\* succeeds, fails or raises.
BatchRemote(i) ==
    /\ i <= Len(batch.fut)
    /\ batch.fut[i].st = "remote"
    /\ LET w == batch.fut[i].worker IN
         \/ /\ workers' = [workers EXCEPT ![w].total_jobs = @ + 1]
            /\ downSince' = downSince
            /\ Future(i, [batch.fut[i] EXCEPT !.st = "decr",
                                               !.outcome = "ok"])
         \/ /\ UNCHANGED <<workers, downSince>>
            /\ Future(i, [batch.fut[i] EXCEPT !.st = "decr",
                                               !.outcome = "fail"])
         \/ /\ workers' = [workers EXCEPT ![w].available = FALSE]
            /\ downSince' = downSince \cup {w}
            /\ \E out \in IF local_fallback THEN {"ok", "fail", "raised"}
                          ELSE {"fail"} :
                 Future(i, [batch.fut[i] EXCEPT !.st = "decr",
                                                !.outcome = out])
    /\ UNCHANGED <<local_fallback, job_counter, th, bothers>>

\* Lines 183-186 and 288-304: the local compile of a call that found no
\* worker.
BatchLocal(i) ==
    /\ i <= Len(batch.fut)
    /\ batch.fut[i].st = "local"
    /\ \E out \in {"ok", "fail", "raised"} :
         Future(i, [batch.fut[i] EXCEPT !.st = "finished", !.outcome = out])
    /\ UNCHANGED <<dvars, bothers>>

\* Lines 196-198: the finally clause of compile_file; the future is done.
BatchDecr(i) ==
    /\ i <= Len(batch.fut)
    /\ batch.fut[i].st = "decr"
    /\ workers' = [workers EXCEPT ![batch.fut[i].worker].active_jobs = @ - 1]
    /\ Future(i, [batch.fut[i] EXCEPT !.st = "finished", !.worker = 0])
    /\ UNCHANGED <<local_fallback, job_counter, th, downSince, bothers>>

\* Lines 332-335: the entry of the mapping for a finished call: its
\* (success, result) pair, or (False, str(e)) when it raised.
ResultEntry(outcome) == IF outcome = "raised" THEN "error" ELSE outcome

\* Lines 329-335: as_completed yields a finished future and its result is
\* stored under the job's source path.
BatchCollect(i) ==
    /\ batch.pc = "collect"
    /\ i <= Len(batch.fut)
    /\ batch.fut[i].st = "finished"
    /\ batch' = [batch EXCEPT
                   !.fut[i] = [NoFuture EXCEPT !.st = "collected"],
                   !.results[batch.jobs[i]] =
                       ResultEntry(batch.fut[i].outcome)]
    /\ UNCHANGED <<dvars, bothers>>

\* Line 337: every future was yielded; the mapping is returned.
BatchReturn ==
    /\ batch.pc = "collect"
    /\ \A i \in 1..Len(batch.fut) : batch.fut[i].st = "collected"
    /\ batch' = [batch EXCEPT !.pc = "returned"]
    /\ UNCHANGED <<dvars, bothers>>

BatchInit ==
    /\ workers \in BatchPools
    /\ job_counter = 0
    /\ th = [t \in Threads |-> IdleFrame]
    /\ downSince = {}
    /\ OthersAtStart
    /\ local_fallback \in BOOLEAN
    /\ program = "compile_many"

BatchNext ==
    \/ BatchCall \/ BatchSubmit \/ BatchReturn
    \/ \E i \in 1..MaxBatch :
         \/ BatchSelect(i) \/ BatchIncr(i) \/ BatchRemote(i)
         \/ BatchLocal(i) \/ BatchDecr(i) \/ BatchCollect(i)

BatchSpec == BatchInit /\ [][BatchNext]_vars

SumActive ==
    SumOver([w \in Workers |-> workers[w].active_jobs], Workers)

\* C11: bounded batch parallelism.  During compile_many the number of
\* compile_file calls in flight is at most max_parallel at every instant,
\* and the sum of active_jobs over the workers is at most that number; when
\* max_parallel was not given it is max(4, sum of the cpus of the workers
\* available when the batch began).
C11_BoundedParallelism ==
    batch.pc # "none" =>
        /\ InFlightCount <= batch.max_parallel
        /\ SumActive <= InFlightCount
        /\ ~batch.given =>
             /\ batch.max_parallel >= 4
             /\ batch.max_parallel >= batch.cpus0
             /\ batch.max_parallel \in {4, batch.cpus0}

\* As many calls in flight as max_parallel allows, each counted on its
\* worker, and a job waiting in the executor's queue.
C11_Witness ==
    /\ batch.pc # "none" /\ batch.max_parallel = 2
    /\ InFlightCount = 2 /\ SumActive = 2
    /\ \E i \in 1..Len(batch.fut) : batch.fut[i].st = "queued"

\* C12: batch completeness.  When compile_many returns, every job of the
\* list was submitted once and has finished, and the returned mapping holds
\* one entry for every job of the list.
C12_BatchCompleteness ==
    batch.pc = "returned" =>
        /\ batch.submitted = Len(batch.jobs)
        /\ \A i \in 1..Len(batch.jobs) : batch.fut[i].st = "collected"
        /\ Cardinality({src \in 1..MaxBatch : batch.results[src] # "none"})
             = Len(batch.jobs)

(***************************************************************************)
(* Framing: send_message, recv_exactly and recv_message of the three       *)
(* programs, over one byte stream.  Bytes and characters are their codes.  *)
(***************************************************************************)
fothers ==
    <<dvars, svars, program, batch, req, lock, access, probe, wrote,
      workspace, spread, wvars, kvars>>

\* The tags of the protocol, as their ASCII codes.
TagSet ==
    {<<80, 73, 78, 71>>, <<80, 79, 78, 71>>, <<81, 85, 73, 84>>,
     <<74, 79, 66>>, <<83, 82, 67>>, <<72, 68, 82>>, <<69, 82, 82>>,
     <<79, 66, 74>>, <<79, 75>>}

\* The bytes payloads are made of: a space and a byte above 127.
PayloadBytes == {32, 200}

RECURSIVE SeqsUpTo(_, _)
SeqsUpTo(S, n) ==
    IF n = 0 THEN {<< >>}
    ELSE LET shorter == SeqsUpTo(S, n - 1) IN
         shorter \cup {Append(q, x) : q \in shorter, x \in S}

Payloads == SeqsUpTo(PayloadBytes, MaxPayload)

\* The programs and the interpreters they run under: the coordinator needs
\* Python 3, the worker and the wrapper run under Python 2.5+ and 3.
Endpoints ==
    {[impl |-> "coordinator", py2 |-> FALSE]}
      \cup [impl : {"worker", "wrapper"}, py2 : BOOLEAN]

\* struct.pack('!I', n)
Pack32(n) ==
    <<(n \div 16777216) % 256, (n \div 65536) % 256, (n \div 256) % 256,
      n % 256>>

\* struct.unpack('!I', b)[0]
Unpack32(b) == b[1] * 16777216 + b[2] * 65536 + b[3] * 256 + b[4]

\* s[:4]
Take4(t) == SubSeq(t, 1, IF Len(t) < 4 THEN Len(t) ELSE 4)

\* s.ljust(4): padded with spaces to four characters.
RECURSIVE Ljust4(_)
Ljust4(t) == IF Len(t) >= 4 THEN t ELSE Ljust4(Append(t, 32))

Whitespace == {9, 10, 11, 12, 13, 32}

RECURSIVE LStrip(_)
LStrip(t) ==
    IF t # << >> /\ Head(t) \in Whitespace THEN LStrip(Tail(t)) ELSE t

RECURSIVE RStrip(_)
RStrip(t) ==
    IF t # << >> /\ t[Len(t)] \in Whitespace
    THEN RStrip(SubSeq(t, 1, Len(t) - 1)) ELSE t

\* s.strip()
Strip(t) == LStrip(RStrip(t))

\* A byte string that Python 2 can decode as ASCII.
IsAscii(data) == \A i \in 1..Len(data) : data[i] < 128

\* send_message of the coordinator (lines 73-78), of the worker (lines
\* 153-159) and of the wrapper (lines 242-251) for a tag and a payload of
\* bytes: the bytes given to sendall, or an exception.  Under Python 2 a
\* byte string is a str: the worker's to_bytes returns it as it is, the
\* wrapper's data.encode('utf-8') decodes it as ASCII first and raises on a
\* byte above 127.
SendBytes(e, tag, data) ==
    IF e.impl = "wrapper" /\ e.py2 /\ ~IsAscii(data)
    THEN [raised |-> TRUE, bytes |-> << >>]
    ELSE [raised |-> FALSE,
          bytes |-> Pack32(Len(data)) \o Ljust4(Take4(tag)) \o data]

\* One call of send_message on the stream.
WireSend ==
    /\ wire.pc = "open"
    /\ ~wire.raised
    /\ Len(wire.handed) < MaxFrames
    /\ \E tag \in TagSet, data \in Payloads :
         LET out == SendBytes([impl |-> wire.snd, py2 |-> wire.snd_py2],
                              tag, data)
             fr == [tag |-> tag, payload |-> data]
         IN  wire' = [wire EXCEPT !.handed = Append(@, fr),
                                  !.raised = out.raised,
                                  !.stream = @ \o out.bytes]
    /\ UNCHANGED fothers

\* recv_message once recv_exactly has returned the n bytes it was asked
\* for: the header is parsed (coordinator lines 94-96, worker 164-166,
\* wrapper 274-279), or the payload is complete and the frame returned.
\* recv_exactly(sock, 0) returns at once.
OnBytes(w, data) ==
    IF w.phase = "header"
    THEN LET length == Unpack32(SubSeq(data, 1, 4))
             tag == Strip(SubSeq(data, 5, 8))
         IN  IF length = 0
             THEN [w EXCEPT !.buf = << >>, !.need = 8,
                            !.got = Append(@, [tag |-> tag,
                                               payload |-> << >>])]
             ELSE [w EXCEPT !.buf = << >>, !.need = length,
                            !.phase = "payload",
                            !.hdr = [length |-> length, tag |-> tag]]
    ELSE [w EXCEPT !.buf = << >>, !.need = 8, !.phase = "header",
                   !.hdr = [length |-> 0, tag |-> << >>],
                   !.got = Append(@, [tag |-> w.hdr.tag, payload |-> data])]

\* One sock.recv call of recv_exactly (coordinator lines 84-88, worker
\* 145-149, wrapper 261-268): it returns between one byte and as many as
\* were asked for, of those that have arrived.
WireRecv ==
    /\ wire.pc = "open"
    /\ wire.stream # << >>
    /\ \E c \in 1..(wire.need - Len(wire.buf)) :
         /\ c <= Len(wire.stream)
         /\ LET data == wire.buf \o SubSeq(wire.stream, 1, c)
                w == [wire EXCEPT
                        !.stream = SubSeq(@, c + 1, Len(@)), !.buf = data]
            IN  wire' = IF Len(data) = wire.need THEN OnBytes(w, data)
                        ELSE w
    /\ UNCHANGED fothers

FrameInit ==
    /\ DispatcherStart
    /\ local_fallback = TRUE
    /\ program = "framing"
    /\ pool = << >> /\ chosen = -1
    /\ wr = WrapperStart
    /\ conn = [c \in Conns |-> NotAccepted] /\ fs = {}
    /\ batch = NoBatch /\ req = NoRequest /\ lock = 0 /\ access = NoAccess
    /\ probe = [w \in Workers |-> NoProbe] /\ wrote = [w \in Workers |-> 0]
    /\ workspace = NoWorkspace /\ spread = NoSpread
    /\ \E s \in Endpoints, r \in Endpoints :
         wire = [NoWire EXCEPT !.pc = "open", !.snd = s.impl,
                               !.snd_py2 = s.py2, !.rcv = r.impl,
                               !.rcv_py2 = r.py2]

FrameNext == WireSend \/ WireRecv

FrameSpec == FrameInit /\ [][FrameNext]_vars

\* C14: framing round trip and concatenation.  Whatever frames are given to
\* send_message, with a tag of the protocol and any bytes as payload, by
\* whichever of the three implementations, every one of them is written,
\* and recv_message returns them in order, the same tags and payloads,
\* however the stream is split into chunks; when all bytes have been read
\* every frame has been returned.
C14_FramingRoundTrip ==
    wire.pc = "open" =>
        /\ ~wire.raised
        /\ IsPrefix(wire.got, wire.handed)
        /\ (wire.stream = << >> /\ wire.buf = << >>
              /\ wire.phase = "header") => wire.got = wire.handed

(***************************************************************************)
(* The JobRequest: how the dispatcher and the wrapper build the document   *)
(* of the JOB frame.  A path is the sequence of its components, "/" first  *)
(* when it is absolute; a command-line argument is a flag and the text     *)
(* that follows it in the same argument.                                   *)
(***************************************************************************)
rothers ==
    <<dvars, svars, program, batch, wire, lock, access, probe, wrote,
      workspace, spread, wvars, kvars>>

\* The source files of the invocations.
SourcePaths ==
    {<<"/", "home", "alice", "proj", "src", "a.c">>, <<"src", "a.c">>,
     <<"a.c">>}

\* The include directories of the invocations.
IncludeDirs ==
    {<<"inc">>, <<"/", "usr", "include">>,
     <<"/", "home", "alice", "proj", "include">>}

OutputPaths == {<<"a.o">>, <<"build", "a.o">>}

\* os.path.basename(path)
Basename(path) == IF path = << >> THEN << >> ELSE <<path[Len(path)]>>

Arg(flag, val) == [flag |-> flag, val |-> val]

\* The argument as one string.
TextOf(a) == IF a.flag = "" THEN a.val ELSE <<a.flag>> \o a.val

\* The ways an invocation of the wrapper spells an include directory, and
\* its output: "-I dir" and "-Idir", "-o out" and "-oout".
IncludeArgs(dir) == {<<Arg("-I", << >>), Arg("", dir)>>, <<Arg("-I", dir)>>}
OutputArgs(out) == {<<Arg("-o", << >>), Arg("", out)>>, <<Arg("-o", out)>>}

\* The command lines the wrapper is called with for a source and an output.
WrapperArgs(src, out) ==
    {inc \o <<Arg("-D", <<"NDEBUG">>), Arg("-O2", << >>), Arg("-c", << >>),
              Arg("", src)>> \o o :
        inc \in UNION {IncludeArgs(d) : d \in IncludeDirs},
        o \in OutputArgs(out)}

\* Lines 307-330 of the wrapper: the loop over args from index i on, with
\* the lists it has filled so far.
RECURSIVE ParseArgs(_, _, _, _, _, _, _)
ParseArgs(args, i, src, out, incs, defs, rest) ==
    IF i > Len(args)
    THEN [include_paths |-> incs, defines |-> defs, other_args |-> rest]
    ELSE LET a == args[i] IN
         IF a.flag = "-I"
         THEN IF a.val = << >> /\ i + 1 <= Len(args)
              THEN ParseArgs(args, i + 2, src, out,
                             Append(incs, TextOf(args[i + 1])), defs, rest)
              ELSE ParseArgs(args, i + 1, src, out,
                             Append(incs, a.val), defs, rest)
         ELSE IF a.flag = "-D"
         THEN IF a.val = << >> /\ i + 1 <= Len(args)
              THEN ParseArgs(args, i + 2, src, out, incs,
                             Append(defs, TextOf(args[i + 1])), rest)
              ELSE ParseArgs(args, i + 1, src, out, incs,
                             Append(defs, a.val), rest)
         ELSE IF \/ a = Arg("-c", << >>) \/ a = Arg("-o", << >>)
                 \/ a = Arg("", src) \/ a = Arg("", out)
         THEN ParseArgs(args, IF a = Arg("-o", << >>) THEN i + 2 ELSE i + 1,
                        src, out, incs, defs, rest)
         ELSE ParseArgs(args, i + 1, src, out, incs, defs,
                        Append(rest, TextOf(a)))

\* Lines 219-226 of the coordinator: the job dict.
JobRequest(job_id, source_path, compiler, args, include_paths, defines) ==
    [job_id |-> job_id, compiler |-> compiler, args |-> args,
     source_name |-> Basename(source_path),
     include_paths |-> include_paths, defines |-> defines]

\* Lines 302-340 of the wrapper: the job dict made from the command line.
WrapperJobRequest(compiler, src, out, args) ==
    LET parsed == ParseArgs(args, 1, src, out, << >>, << >>, << >>) IN
    [job_id |-> "cli-pid", compiler |-> compiler,
     args |-> parsed.other_args, source_name |-> Basename(src),
     include_paths |-> parsed.include_paths, defines |-> parsed.defines]

\* _compile_remote builds the JobRequest of a compile_file call.
ReqDispatcher ==
    /\ req.pc = "none"
    /\ \E src \in SourcePaths, out \in OutputPaths,
          compiler \in {"gcc", "g++"}, job_id \in {"job-000001", "job-000002"},
          incs \in SeqsUpTo(IncludeDirs, 2),
          defs \in {<< >>, << <<"NDEBUG">> >>} :
         req' = [pc |-> "built", client |-> "dispatcher", source |-> src,
                 output |-> out,
                 job |-> JobRequest(job_id, src, compiler, << <<"-O2">> >>,
                                    incs, defs)]
    /\ UNCHANGED rothers

\* try_remote_compile builds the JobRequest of an invocation of the wrapper.
ReqWrapper ==
    /\ req.pc = "none"
    /\ \E src \in SourcePaths, out \in OutputPaths,
          compiler \in {"gcc", "g++"} :
         \E args \in WrapperArgs(src, out) :
           req' = [pc |-> "built", client |-> "wrapper", source |-> src,
                   output |-> out,
                   job |-> WrapperJobRequest(compiler, src, out, args)]
    /\ UNCHANGED rothers

ReqInit ==
    /\ DispatcherStart
    /\ local_fallback = TRUE
    /\ program = "job_request"
    /\ pool = << >> /\ chosen = -1
    /\ wr = WrapperStart
    /\ conn = [c \in Conns |-> NotAccepted] /\ fs = {}
    /\ batch = NoBatch /\ wire = NoWire /\ lock = 0 /\ access = NoAccess
    /\ probe = [w \in Workers |-> NoProbe] /\ wrote = [w \in Workers |-> 0]
    /\ workspace = NoWorkspace /\ spread = NoSpread
    /\ req = NoRequest

ReqNext == ReqDispatcher \/ ReqWrapper

ReqSpec == ReqInit /\ [][ReqNext]_vars

\* The text holds the top directory of the absolute path src, which lies
\* above the directory of src.
Reveals(text, src) ==
    /\ Len(src) >= 4 /\ src[1] = "/"
    /\ \E i \in 1..(Len(text) - 1) : text[i] = "/" /\ text[i + 1] = src[2]

\* The strings of a JobRequest that can hold a path.
RequestTexts(job) ==
    {job.source_name}
      \cup {job.args[i] : i \in 1..Len(job.args)}
      \cup {job.include_paths[i] : i \in 1..Len(job.include_paths)}
      \cup {job.defines[i] : i \in 1..Len(job.defines)}

\* C16: basename privacy.  In the JobRequest of every JOB frame of the
\* dispatcher and of the wrapper, source_name is the basename of the source
\* path, and no field holds the absolute source path or a directory above
\* the source's directory.
C16_BasenamePrivacy ==
    req.pc = "built" =>
        /\ req.job.source_name = Basename(req.source)
        /\ \A text \in RequestTexts(req.job) :
             /\ Len(req.source) > 1 => text # req.source
             /\ ~Reveals(text, req.source)


(***************************************************************************)
(* The pool lock.  Every "with self.lock" block of the dispatcher is an    *)
(* entry step, which waits until the lock is free, and a body step, which  *)
(* ends with the release.  lock is the thread holding self.lock, 0 when it *)
(* is free; access is the last read or write of a dynamic WorkerState      *)
(* field and whether the accessing thread held the lock.                   *)
(***************************************************************************)
lothers ==
    <<downSince, svars, program, batch, wire, req, probe, wrote, workspace,
      spread, wvars, kvars>>

\* The thread calling refresh_workers and compile_many, and the executor
\* thread of refresh_workers that runs check_worker(w).
MainThread == NumThreads + NumWorkers + 1
ProbeThread(w) == NumThreads + w

\* Line 106: self.lock is a threading.Lock; thread t holds it.
Holds(t) == lock = t

\* A read or write of a dynamic field by thread t.
Access(t, f) == [field |-> f, locked |-> Holds(t)]

\* Line 177: with self.lock, entered.
LockCompileFile(t) ==
    /\ th[t].pc = "idle"
    /\ job_counter < MaxJobs
    /\ lock = 0
    /\ lock' = t
    /\ Frame(t, [IdleFrame EXCEPT !.pc = "counter"])
    /\ UNCHANGED <<workers, local_fallback, job_counter, access, lothers>>

\* Lines 178-179: the job id is minted and the lock released.
LockMint(t) ==
    /\ th[t].pc = "counter"
    /\ job_counter' = job_counter + 1
    /\ lock' = 0
    /\ Frame(t, [th[t] EXCEPT !.pc = "select", !.job_id = job_counter + 1])
    /\ UNCHANGED <<workers, local_fallback, access, lothers>>

\* Lines 181, 156: get_best_worker enters its with self.lock.
LockSelectEnter(t) ==
    /\ th[t].pc = "select"
    /\ lock = 0
    /\ lock' = t
    /\ Frame(t, [th[t] EXCEPT !.pc = "selecting"])
    /\ UNCHANGED <<workers, local_fallback, job_counter, access, lothers>>

\* Lines 157-165 and 182-188: the pool is scanned (available, load and
\* active_jobs are read), the lock is released by the return, and
\* compile_file goes on with the worker or without one.
LockSelect(t) ==
    /\ th[t].pc = "selecting"
    /\ access' = Access(t, "available")
    /\ lock' = 0
    /\ LET w == get_best_worker(PoolList) IN
         IF w # 0
         THEN Frame(t, [th[t] EXCEPT !.pc = "incr", !.worker = w,
                                     !.sels = @ + 1])
         ELSE IF local_fallback
         THEN Frame(t, [th[t] EXCEPT !.pc = "local"])
         ELSE Frame(t, [th[t] EXCEPT !.pc = "done",
                          !.result = [ok |-> FALSE,
                                      msg |-> "No workers available"]])
    /\ UNCHANGED <<workers, local_fallback, job_counter, lothers>>

\* Line 190: with self.lock, entered.
LockIncrEnter(t) ==
    /\ th[t].pc = "incr"
    /\ lock = 0
    /\ lock' = t
    /\ Frame(t, [th[t] EXCEPT !.pc = "incrementing"])
    /\ UNCHANGED <<workers, local_fallback, job_counter, access, lothers>>

\* LockIncr with the remote compile inside the with block: the lock is kept.
LockIncrHolding(t) ==
    /\ th[t].pc = "incrementing"
    /\ workers' = [workers EXCEPT ![th[t].worker].active_jobs = @ + 1]
    /\ access' = Access(t, "active_jobs")
    /\ Frame(t, [th[t] EXCEPT !.pc = "remote"])
    /\ UNCHANGED <<local_fallback, job_counter, lock, lothers>>

\* Lines 191-195: worker.active_jobs += 1, the lock is released and
\* _compile_remote is called.
LockIncr(t) ==
    /\ th[t].pc = "incrementing"
    /\ workers' = [workers EXCEPT ![th[t].worker].active_jobs = @ + 1]
    /\ access' = Access(t, "active_jobs")
    /\ lock' = 0
    /\ Frame(t, [th[t] EXCEPT !.pc = "remote"])
    /\ UNCHANGED <<local_fallback, job_counter, lothers>>

\* Lines 208-271: the blocking part of _compile_remote: connect, the read of
\* the source file, the three sends, the receives and the write of the
\* output file.  It ends at the success counters, in a returned failure, or
\* in the except clause.
LockRemote(t) ==
    /\ th[t].pc = "remote"
    /\ \/ Frame(t, [th[t] EXCEPT !.pc = "stats", !.output = "written"])
       \/ Frame(t, Finally([th[t] EXCEPT
                      !.result = [ok |-> FALSE, msg |-> "error"]]))
       \/ Frame(t, [th[t] EXCEPT !.pc = "except"])
    /\ UNCHANGED <<workers, local_fallback, job_counter, lock, access,
                   lothers>>

\* Line 264: with self.lock, entered.
LockStatsEnter(t) ==
    /\ th[t].pc = "stats"
    /\ lock = 0
    /\ lock' = t
    /\ Frame(t, [th[t] EXCEPT !.pc = "counting"])
    /\ UNCHANGED <<workers, local_fallback, job_counter, access, lothers>>

\* Lines 265-268: the success counters, the release and the return.
LockStats(t) ==
    /\ th[t].pc = "counting"
    /\ workers' = [workers EXCEPT ![th[t].worker].total_jobs = @ + 1]
    /\ access' = Access(t, "total_jobs")
    /\ lock' = 0
    /\ Frame(t, Finally([th[t] EXCEPT !.counted = TRUE,
                   !.result = [ok |-> TRUE, msg |-> "output_path"]]))
    /\ UNCHANGED <<local_fallback, job_counter, lothers>>

\* Lines 273-280: the except clause: worker.available = False, no with.
LockExcept(t) ==
    /\ th[t].pc = "except"
    /\ workers' = [workers EXCEPT ![th[t].worker].available = FALSE]
    /\ access' = Access(t, "available")
    /\ IF local_fallback
       THEN Frame(t, [th[t] EXCEPT !.pc = "local", !.marked_down = TRUE])
       ELSE Frame(t, Finally([th[t] EXCEPT !.marked_down = TRUE,
                        !.result = [ok |-> FALSE, msg |-> "str(e)"]]))
    /\ UNCHANGED <<local_fallback, job_counter, lock, lothers>>

\* Lines 288-304: _compile_local waits for the compiler subprocess.
LockLocal(t) ==
    /\ th[t].pc = "local"
    /\ \/ \E rc \in {0, 1} :
            Frame(t, AfterLocal([th[t] EXCEPT !.local_rc = rc,
                                             !.result = LocalResult(rc)]))
       \/ Frame(t, AfterLocal([th[t] EXCEPT !.result = Raised]))
    /\ UNCHANGED <<workers, local_fallback, job_counter, lock, access,
                   lothers>>

\* Lines 196-197: the finally clause enters its with self.lock.
LockDecrEnter(t) ==
    /\ th[t].pc = "decr"
    /\ lock = 0
    /\ lock' = t
    /\ Frame(t, [th[t] EXCEPT !.pc = "decrementing"])
    /\ UNCHANGED <<workers, local_fallback, job_counter, access, lothers>>

\* Line 198: worker.active_jobs -= 1 and the release.
LockDecr(t) ==
    /\ th[t].pc = "decrementing"
    /\ workers' = [workers EXCEPT ![th[t].worker].active_jobs = @ - 1]
    /\ access' = Access(t, "active_jobs")
    /\ lock' = 0
    /\ Frame(t, [th[t] EXCEPT !.pc = "done"])
    /\ UNCHANGED <<local_fallback, job_counter, lothers>>

\* compile_file has returned and its caller takes the result.
LockReturn(t) ==
    /\ th[t].pc = "done"
    /\ Frame(t, IdleFrame)
    /\ UNCHANGED <<workers, local_fallback, job_counter, lock, access,
                   lothers>>

\* Lines 125-146: check_worker(w) on its executor thread, after its socket
\* exchange: the PONG branch writes available, cpus and load, the except
\* clause writes available; neither is inside a with self.lock.
LockProbe(w) ==
    /\ \/ workers' = [workers EXCEPT ![w].available = TRUE,
                                    ![w].cpus = SystemInfo(w).cpus,
                                    ![w].load = SystemInfo(w).load]
       \/ workers' = [workers EXCEPT ![w].available = FALSE]
    /\ access' = Access(ProbeThread(w), "available")
    /\ UNCHANGED <<local_fallback, job_counter, th, lock, lothers>>

\* Line 151: refresh_workers counts the available workers.
LockRefreshCount ==
    /\ access' = Access(MainThread, "available")
    /\ UNCHANGED <<workers, local_fallback, job_counter, th, lock, lothers>>

\* Line 310: compile_many reads available for its default max_parallel.
LockDefaultParallel ==
    /\ access' = Access(MainThread, "available")
    /\ UNCHANGED <<workers, local_fallback, job_counter, th, lock, lothers>>

LockInit ==
    /\ AllAtStart
    /\ local_fallback \in BOOLEAN
    /\ program = "locking"

LockStep(t) ==
    \/ LockCompileFile(t) \/ LockMint(t) \/ LockSelectEnter(t)
    \/ LockSelect(t) \/ LockIncrEnter(t) \/ LockIncr(t) \/ LockRemote(t)
    \/ LockStatsEnter(t) \/ LockStats(t) \/ LockExcept(t) \/ LockLocal(t)
    \/ LockDecrEnter(t) \/ LockDecr(t) \/ LockReturn(t)

LockNext ==
    \/ \E t \in Threads : LockStep(t)
    \/ \E w \in Workers : LockProbe(w)
    \/ LockRefreshCount
    \/ LockDefaultParallel

LockSpec == LockInit /\ [][LockNext]_vars

\* C18: lock discipline.  Every read and every write of a dynamic
\* WorkerState field (available, active_jobs, total_jobs, total_time, load)
\* by compile_file, _compile_remote, get_best_worker, compile_many and
\* refresh_workers with its probe threads is made by a thread that holds
\* the pool lock.
C18_LockDiscipline == access.locked

\* A thread inside a socket connect, send or recv, a file read or write, or
\* the wait for a compiler subprocess.
Blocked(t) == th[t].pc \in {"remote", "local"}

\* C19: the pool lock is never held across a blocking operation.  A thread
\* inside a socket operation, a file read or write or a subprocess wait does
\* not hold the lock, so another thread's selection or accounting can take
\* it.
C19_LockNotHeldWhileBlocking ==
    \A t \in Threads : Blocked(t) => ~Holds(t)

\* A thread is inside the remote exchange while the other thread is inside a
\* critical section.
C19_Witness ==
    \E t, u \in Threads :
        /\ th[t].pc = "remote"
        /\ Holds(u)
        /\ th[u].pc \in {"selecting", "incrementing", "decrementing"}


(***************************************************************************)
(* refresh_workers: check_worker(w) step by step, one executor thread per  *)
(* worker.                                                                 *)
(***************************************************************************)
pothers ==
    <<local_fallback, job_counter, th, downSince, svars, program, batch,
      wire, req, lock, access, wrote, workspace, spread, wvars, kvars>>

\* What a worker, or whatever listens on its port, answers a PING with.
ProbeReplies ==
    {[tag |-> "PONG", payload |-> "doc"],
     [tag |-> "PONG", payload |-> "text"],
     [tag |-> "ERR", payload |-> "text"]}

Probe(w, r) == probe' = [probe EXCEPT ![w] = r]

\* Lines 148-149: executor.map(check_worker, self.workers) starts one call
\* per worker.
RefreshWorkers ==
    /\ \A w \in Workers : probe[w].pc = "idle"
    /\ probe' = [w \in Workers |-> [NoProbe EXCEPT !.pc = "connect"]]
    /\ UNCHANGED <<workers, pothers>>

\* Lines 127-129: the socket is created and connected, or connect raises
\* (refused, unreachable, 2 s timeout).
ProbeConnect(w) ==
    /\ probe[w].pc = "connect"
    /\ \/ Probe(w, [probe[w] EXCEPT !.pc = "send", !.sock = "open"])
       \/ Probe(w, [probe[w] EXCEPT !.pc = "except", !.sock = "open"])
    /\ UNCHANGED <<workers, pothers>>

\* Line 130: send_message(sock, 'PING', ''), or sendall raises.
ProbeSend(w) ==
    /\ probe[w].pc = "send"
    /\ \/ Probe(w, [probe[w] EXCEPT !.pc = "recv"])
       \/ Probe(w, [probe[w] EXCEPT !.pc = "except"])
    /\ UNCHANGED <<workers, pothers>>

\* Line 131: recv_message(sock) returns a frame, or raises (timeout, closed
\* connection).
ProbeRecv(w) ==
    /\ probe[w].pc = "recv"
    /\ \/ \E f \in ProbeReplies :
            Probe(w, [probe[w] EXCEPT !.pc = "close", !.reply = f])
       \/ Probe(w, [probe[w] EXCEPT !.pc = "except"])
    /\ UNCHANGED <<workers, pothers>>

\* Line 132: sock.close()
ProbeClose(w) ==
    /\ probe[w].pc = "close"
    /\ Probe(w, [probe[w] EXCEPT !.pc = "dispatch", !.sock = "closed"])
    /\ UNCHANGED <<workers, pothers>>

\* Lines 134-142 and 146: the PONG branch stores the document, and
\* json.loads raises on a payload that is no document; any other tag falls
\* through to return False.
ProbeDispatch(w) ==
    /\ probe[w].pc = "dispatch"
    /\ IF probe[w].reply.tag = "PONG"
       THEN IF JsonObject(probe[w].reply.payload)
            THEN /\ workers' = [workers EXCEPT
                                  ![w].available = TRUE,
                                  ![w].cpus = SystemInfo(w).cpus,
                                  ![w].load = SystemInfo(w).load]
                 /\ Probe(w, [probe[w] EXCEPT !.pc = "done",
                                              !.result = "True"])
            ELSE /\ Probe(w, [probe[w] EXCEPT !.pc = "except"])
                 /\ UNCHANGED workers
       ELSE /\ Probe(w, [probe[w] EXCEPT !.pc = "done", !.result = "False"])
            /\ UNCHANGED workers
    /\ UNCHANGED pothers

\* Lines 143-146: the except clause: worker.available = False, return
\* False.  The clause does not close the socket; a socket still open is
\* closed only if and when the runtime collects it.
ProbeExcept(w) ==
    /\ probe[w].pc = "except"
    /\ workers' = [workers EXCEPT ![w].available = FALSE]
    /\ \E s \in {probe[w].sock, "closed"} :
          Probe(w, [probe[w] EXCEPT !.pc = "done", !.result = "False",
                                    !.sock = s])
    /\ UNCHANGED pothers

\* Lines 148-152: the with block ends when every call has returned, and
\* refresh_workers returns.
RefreshReturn ==
    /\ \A w \in Workers : probe[w].pc = "done"
    /\ probe' = [w \in Workers |-> [probe[w] EXCEPT !.pc = "idle"]]
    /\ UNCHANGED <<workers, pothers>>

ProbeInit ==
    /\ AllAtStart
    /\ local_fallback = TRUE
    /\ program = "refresh_workers"

ProbeNext ==
    \/ RefreshWorkers
    \/ \E w \in Workers :
          \/ ProbeConnect(w) \/ ProbeSend(w) \/ ProbeRecv(w)
          \/ ProbeClose(w) \/ ProbeDispatch(w) \/ ProbeExcept(w)
    \/ RefreshReturn

ProbeSpec == ProbeInit /\ [][ProbeNext]_vars

\* The probe connected, sent PING and read a PONG with a SystemInfo
\* document.
ProbeSucceeded(p) ==
    p.reply.tag = "PONG" /\ JsonObject(p.reply.payload)

\* C22: the probe outcome determines availability.  When check_worker(w)
\* has returned, w.available is true exactly if the probe read a PONG frame
\* with a parseable SystemInfo document, and then cpus and load are the
\* document's; after every other outcome w.available is false.
C22_ProbeDeterminesAvailable ==
    \A w \in Workers :
        probe[w].pc = "done" =>
            /\ workers[w].available <=> ProbeSucceeded(probe[w])
            /\ ProbeSucceeded(probe[w]) =>
                  /\ workers[w].cpus = SystemInfo(w).cpus
                  /\ workers[w].load = SystemInfo(w).load

\* C23: sockets are closed on every exit path.  When check_worker has
\* returned, on success or failure, the socket it opened is closed.
C23_SocketsClosed ==
    \A w \in Workers :
        probe[w].pc \in {"done", "idle"} => probe[w].sock # "open"


(***************************************************************************)
(* handle_compile_job: the files one job creates.  A path is the sequence  *)
(* of its components, an absolute path begins with the component "/".      *)
(***************************************************************************)
wsothers ==
    <<dvars, svars, program, batch, wire, req, lock, access, probe, wrote,
      spread, wvars, kvars>>

\* Line 186: the directory tempfile.mkdtemp(prefix='ppc_compile_') made.
TmpDir == <<"/", "tmp", "ppc_compile_x">>

\* The directories on the worker's disk before the job.
HostDirs == {<<"/">>, <<"/", "tmp">>, <<"/", "etc">>}

\* Lines 178 and 210: the source_name values and the keys of the HDR object
\* a client can send.
SourceNames ==
    {<<"a.c">>, <<"sub", "a.c">>, <<"..", "a.c">>, <<"/", "etc", "a.c">>}
HeaderNames ==
    {<<"a.h">>, <<"inc", "a.h">>, <<"..", "a.h">>, <<"/", "etc", "a.h">>}
HeaderLists ==
    UNION {[1..n -> HeaderNames] : n \in 0..MaxHdrs}

\* os.path.join(a, b): an absolute b replaces a.
Join(a, b) == IF b # << >> /\ b[1] = "/" THEN b ELSE a \o b

\* os.path.dirname(p)
Dirname(p) == IF Len(p) > 1 THEN SubSeq(p, 1, Len(p) - 1) ELSE p

\* The file the operating system opens for a path: each ".." component
\* leaves the directory reached so far, except at the root.
RECURSIVE Resolve(_, _, _)
Resolve(p, i, acc) ==
    IF i > Len(p) THEN acc
    ELSE IF p[i] = ".."
    THEN Resolve(p, i + 1,
                 IF Len(acc) > 1 THEN SubSeq(acc, 1, Len(acc) - 1) ELSE acc)
    ELSE Resolve(p, i + 1, Append(acc, p[i]))
Opened(p) == Resolve(p, 1, << >>)

\* Line 220: os.path.splitext(source_name)[0] + '.o'
OutputName(name) ==
    [i \in 1..Len(name) |->
        IF i = Len(name) /\ name[i] = "a.c" THEN "a.o" ELSE name[i]]

\* os.makedirs(d): d and the ancestors of d that do not exist yet.
MakeDirs(d, existing) ==
    {SubSeq(d, 1, n) : n \in 1..Len(d)} \ existing

\* Lines 171-189: a JOB frame arrives, the workspace is made.
WsJob ==
    /\ workspace.pc = "none"
    /\ \E src \in SourceNames, hdrs \in HeaderLists :
          workspace' = [NoWorkspace EXCEPT !.pc = "src", !.source_name = src,
                                          !.headers = hdrs,
                                          !.dirs = {TmpDir}]
    /\ UNCHANGED wsothers

\* Lines 188-204: source_path = os.path.join(tmpdir, source_name) is opened
\* for writing; open raises when its directory does not exist.
WsWriteSource ==
    /\ workspace.pc = "src"
    /\ LET source_path == Opened(Join(TmpDir, workspace.source_name)) IN
         IF Dirname(source_path) \in HostDirs \cup workspace.dirs
         THEN workspace' = [workspace EXCEPT
                              !.pc = "hdr", !.todo = 1,
                              !.made = @ \cup {source_path}]
         ELSE workspace' = [workspace EXCEPT !.pc = "cleanup"]
    /\ UNCHANGED wsothers

\* Lines 210-217: one entry of the HDR object: the directory of
\* os.path.join(tmpdir, hdr_name) is made when missing and the file written.
WsWriteHeader ==
    /\ workspace.pc = "hdr"
    /\ workspace.todo <= Len(workspace.headers)
    /\ LET hdr_path == Opened(Join(TmpDir, workspace.headers[workspace.todo]))
           existing == HostDirs \cup workspace.dirs
       IN  workspace' = [workspace EXCEPT
                           !.todo = @ + 1,
                           !.dirs = @ \cup MakeDirs(Dirname(hdr_path),
                                                    existing),
                           !.made = @ \cup {hdr_path}]
    /\ UNCHANGED wsothers

\* Lines 219-262: the compiler is run with -o output_path and writes the
\* object file there, or fails and writes nothing.
WsCompile ==
    /\ workspace.pc = "hdr"
    /\ workspace.todo > Len(workspace.headers)
    /\ LET output_path ==
             Opened(Join(TmpDir, OutputName(workspace.source_name)))
       IN  \/ workspace' = [workspace EXCEPT
                              !.pc = "cleanup",
                              !.made = @ \cup {output_path}]
           \/ workspace' = [workspace EXCEPT !.pc = "cleanup"]
    /\ UNCHANGED wsothers

\* Lines 275-280: shutil.rmtree(tmpdir); the job is over.
WsCleanup ==
    /\ workspace.pc = "cleanup"
    /\ workspace' = [workspace EXCEPT !.pc = "done"]
    /\ UNCHANGED wsothers

WsInit ==
    /\ AllAtStart
    /\ local_fallback = TRUE
    /\ program = "handle_compile_job"

WsNext ==
    \/ WsJob \/ WsWriteSource \/ WsWriteHeader \/ WsCompile \/ WsCleanup

WsSpec == WsInit /\ [][WsNext]_vars

\* Path p is the directory d or lies below it.
Within(d, p) == Len(p) >= Len(d) /\ SubSeq(p, 1, Len(d)) = d

\* C27: workspace containment.  Every file and every directory a job
\* handler creates lies inside the job's own workspace directory, for
\* every source_name and every header key, names with ".." components and
\* absolute names included.
C27_WorkspaceContainment ==
    \A p \in workspace.made \cup workspace.dirs : Within(TmpDir, p)


(***************************************************************************)
(* compile_many on a batch of SpreadJobs jobs over two available workers   *)
(* with cpus = 2, equal weight and load, that compile every job they get:  *)
(* the executor's threads, each running one compile_file call at a time.   *)
(***************************************************************************)
spothers ==
    <<local_fallback, th, downSince, svars, program, batch, wire, req, lock,
      access, probe, wrote, workspace, wvars, kvars>>

ExecutorThreads == 1..MaxParallel

Executor(x, r) == spread' = [spread EXCEPT !.thr[x] = r]

\* Lines 306-327: max_parallel defaults to max(cpus of the available
\* workers, 4) and every job is submitted to the executor.
SpreadCall ==
    /\ spread.pc = "none"
    /\ spread' = [spread EXCEPT
                    !.pc = "running",
                    !.max_parallel = DefaultParallel(AvailableCpus),
                    !.queued = SpreadJobs]
    /\ UNCHANGED <<workers, job_counter, spothers>>

\* Lines 173-188 on executor thread x: the thread takes the oldest queued
\* job, compile_file mints the job id and selects a worker.
SpreadTake(x) ==
    /\ spread.pc = "running"
    /\ x <= spread.max_parallel
    /\ spread.thr[x].pc = "idle"
    /\ spread.queued > 0
    /\ get_best_worker(PoolList) # 0
    /\ job_counter' = job_counter + 1
    /\ spread' = [spread EXCEPT
                    !.queued = @ - 1,
                    !.thr[x] = [pc |-> "incr",
                                worker |-> get_best_worker(PoolList)]]
    /\ UNCHANGED <<workers, spothers>>

\* Lines 190-191: with self.lock: worker.active_jobs += 1
SpreadIncr(x) ==
    /\ spread.thr[x].pc = "incr"
    /\ workers' = [workers EXCEPT ![spread.thr[x].worker].active_jobs = @ + 1]
    /\ Executor(x, [spread.thr[x] EXCEPT !.pc = "remote"])
    /\ UNCHANGED <<job_counter, spothers>>

\* SpreadRemote without the success counters.
SpreadRemoteUncounted(x) ==
    /\ spread.thr[x].pc = "remote"
    /\ Executor(x, [spread.thr[x] EXCEPT !.pc = "decr"])
    /\ UNCHANGED <<workers, job_counter, spothers>>

\* Lines 200-268: the exchange with a worker that compiles the job: OK and
\* OBJ are received, the output is written and total_jobs counted.
SpreadRemote(x) ==
    /\ spread.thr[x].pc = "remote"
    /\ workers' = [workers EXCEPT ![spread.thr[x].worker].total_jobs = @ + 1]
    /\ Executor(x, [spread.thr[x] EXCEPT !.pc = "decr"])
    /\ UNCHANGED <<job_counter, spothers>>

\* Lines 196-198 and 329-335: active_jobs -= 1, compile_file returns, the
\* future completes and its result is collected; the thread is free.
SpreadDecr(x) ==
    /\ spread.thr[x].pc = "decr"
    /\ workers' = [workers EXCEPT ![spread.thr[x].worker].active_jobs = @ - 1]
    /\ spread' = [spread EXCEPT !.done = @ + 1, !.thr[x] = IdleExecutor]
    /\ UNCHANGED <<job_counter, spothers>>

\* Lines 329-337: every future has completed; compile_many returns.
SpreadReturn ==
    /\ spread.pc = "running"
    /\ spread.done = SpreadJobs
    /\ spread' = [spread EXCEPT !.pc = "returned"]
    /\ UNCHANGED <<workers, job_counter, spothers>>

\* The pool of the run: workers 1 and 2 were probed available with two
\* cpus and no load, and have the same weight.
SpreadPool ==
    [w \in Workers |->
        IF w <= 2
        THEN [WorkerState(w) EXCEPT !.available = TRUE, !.cpus = 2]
        ELSE WorkerState(w)]

SpreadInit ==
    /\ workers = SpreadPool
    /\ job_counter = 0
    /\ th = [t \in Threads |-> IdleFrame]
    /\ downSince = {}
    /\ OthersAtStart
    /\ local_fallback = TRUE
    /\ program = "compile_many_spread"

SpreadNext ==
    \/ SpreadCall
    \/ \E x \in ExecutorThreads :
          \/ SpreadTake(x) \/ SpreadIncr(x) \/ SpreadRemote(x)
          \/ SpreadDecr(x)
    \/ SpreadReturn

SpreadSpec == SpreadInit /\ [][SpreadNext]_vars

SumTotal ==
    SumOver([w \in Workers |-> workers[w].total_jobs], Workers)

=============================================================================
